---- MODULE Spec2Model ----
(***************************************************************************)
(* Cross Numbers puzzle: the constraint validation engine (src/src/engine.ts)*)
(* applied to a GameState (src/src/types.ts).  A GameState is modelled by   *)
(* its puzzle definition and its grid; validateConstraints and              *)
(* isPuzzleSolved are applied to every input drawn in Init.                 *)
(***************************************************************************)
EXTENDS Integers, Sequences, FiniteSets, TLC

VARIABLES puzzle, grid, validationResults, solved, pc,
          availableDigits, selectedDigit, selectedDigitIndex, isSubmitted,
          health, score,
          currentPuzzleIndex, globalScore, globalHealth,
          screen, nextButtons, completionTimers, gameOverTimers,
          validationCalls, puzzles

\* the fields of GameState the engine does not read, the module state of
\* main.ts, what the page shows and the timers not yet fired
gameVars == <<availableDigits, selectedDigit, selectedDigitIndex, isSubmitted,
              health, score,
              currentPuzzleIndex, globalScore, globalHealth,
              screen, nextButtons, completionTimers, gameOverTimers,
              validationCalls, puzzles>>

vars == <<puzzle, grid, validationResults, solved, pc, gameVars>>

(***************************************************************************)
(* Bounds of the model.                                                    *)
(***************************************************************************)
\* digits placed in cells are 0..MaxDigit (a digit is 0..9 in the program)
MaxDigit == 3

Digits == 0..MaxDigit

(***************************************************************************)
(* types.ts: values                                                        *)
(***************************************************************************)
\* `number | null` of GameState.grid: the empty cell.  Map.get of a key the
\* map does not hold yields undefined; every reader of the grid treats
\* undefined and null alike (`?? null`, `=== null || === undefined`).
Null == 0 - 1

\* an optional property of a JS object: present or undefined
Has(obj, field) == field \in DOMAIN obj

\* JS truthiness of an optional string property (undefined and '' are falsy)
Truthy(obj, field) == Has(obj, field) /\ obj[field] # ""

\* a ValidationResult; the message is its template text and the numbers
\* interpolated into it, in order
Msg(text, args) == [text |-> text, args |-> args]

Verdict(constraint, satisfied, message) ==
  [constraintId |-> constraint.id,
   description  |-> constraint.description,
   satisfied    |-> satisfied,
   message      |-> message]

(***************************************************************************)
(* engine.ts: helpers                                                      *)
(***************************************************************************)
\* the read of a cell with `?? 0` for `?? null`
GridGet_absentZero(g, cellId) == IF cellId \in DOMAIN g THEN g[cellId] ELSE 0

\* state.grid.get(cellId) ?? null
GridGet(g, cellId) == IF cellId \in DOMAIN g THEN g[cellId] ELSE Null

\* state.puzzle.slots.find(s => s.id === id): index of the first slot with
\* that id, 0 when find returns undefined
FindSlot(slots, id) ==
  IF \E i \in 1..Len(slots) : slots[i].id = id
  THEN CHOOSE i \in 1..Len(slots) :
         /\ slots[i].id = id
         /\ \A j \in 1..(i-1) : slots[j].id # id
  ELSE 0

\* find with an optional property of the constraint as the id sought
FindSlotOf(slots, constraint, field) ==
  IF Has(constraint, field) THEN FindSlot(slots, constraint[field]) ELSE 0

\* slot.cells.map(cellId => state.grid.get(cellId) ?? null)
SlotDigits(slot, g) ==
  [i \in 1..Len(slot.cells) |-> GridGet(g, slot.cells[i])]

\* digits.some(d => d === null)
SomeNull(digits) == \E i \in 1..Len(digits) : digits[i] = Null

\* parseInt(digits.join('')) for a non-empty sequence of digits 0..9: each
\* digit contributes one character, parseInt reads the decimal string
RECURSIVE ParseIntJoin(_)
ParseIntJoin(digits) ==
  IF Len(digits) = 0 THEN 0
  ELSE ParseIntJoin(SubSeq(digits, 1, Len(digits) - 1)) * 10 + digits[Len(digits)]

RemoveAt(s, i) == SubSeq(s, 1, i - 1) \o SubSeq(s, i + 1, Len(s))

\* the descending sort with the comparator of the ascending one, a - b
RECURSIVE SortDescending_ascending(_)
SortDescending_ascending(s) ==
  IF Len(s) = 0 THEN <<>>
  ELSE LET i == CHOOSE k \in 1..Len(s) : \A j \in 1..Len(s) : s[k] =< s[j]
       IN  <<s[i]>> \o SortDescending_ascending(RemoveAt(s, i))

\* [...usedDigits].sort((a, b) => b - a)
RECURSIVE SortDescending(_)
SortDescending(s) ==
  IF Len(s) = 0 THEN <<>>
  ELSE LET i == CHOOSE k \in 1..Len(s) : \A j \in 1..Len(s) : s[k] >= s[j]
       IN  <<s[i]>> \o SortDescending(RemoveAt(s, i))

\* [...usedDigits].sort((a, b) => a - b)
RECURSIVE SortAscending(_)
SortAscending(s) ==
  IF Len(s) = 0 THEN <<>>
  ELSE LET i == CHOOSE k \in 1..Len(s) : \A j \in 1..Len(s) : s[k] =< s[j]
       IN  <<s[i]>> \o SortAscending(RemoveAt(s, i))

\* a repeat looked for among neighbouring digits only
HasRepeat_adjacent(digits) ==
  \E i \in 1..(Len(digits) - 1) : digits[i] = digits[i + 1]

\* new Set(usedDigits).size !== usedDigits.length
HasRepeat(digits) ==
  Cardinality({digits[i] : i \in 1..Len(digits)}) # Len(digits)

\* sortedDigits.findIndex(d => d !== 0), 1-based; 0 when findIndex is -1
FirstNonZeroIndex(s) ==
  IF \E i \in 1..Len(s) : s[i] # 0
  THEN CHOOSE i \in 1..Len(s) : s[i] # 0 /\ \A j \in 1..(i-1) : s[j] = 0
  ELSE 0

\* usedDigits.reduce((sum, d) => sum + d, 0)
RECURSIVE SumDigits(_)
SumDigits(s) == IF Len(s) = 0 THEN 0 ELSE s[1] + SumDigits(Tail(s))

(***************************************************************************)
(* engine.ts: the validators of slot-targeted constraints                  *)
(***************************************************************************)
validateGreatestNumber(constraint, digits) ==
  LET currentNumber  == ParseIntJoin(digits)
      sortedDigits   == SortDescending(digits)
      greatestNumber == ParseIntJoin(sortedDigits)
      satisfied      == currentNumber = greatestNumber
  IN  IF Has(constraint, "noRepeat") /\ constraint.noRepeat /\ HasRepeat(digits)
      THEN Verdict(constraint, FALSE, Msg("Cannot repeat digits", <<>>))
      ELSE Verdict(constraint, satisfied,
             IF satisfied
             THEN Msg("is the greatest", <<currentNumber>>)
             ELSE Msg("is not the greatest", <<currentNumber, greatestNumber>>))

\* the smallest arrangement without the leading-zero exchange
SmallestArrangement_noSwap(digits) == SortAscending(digits)

\* lines 227-237: ascending sort, then the leading 0 swapped with the first
\* non-zero digit
SmallestArrangement(digits) ==
  LET sortedDigits      == SortAscending(digits)
      firstNonZeroIndex == FirstNonZeroIndex(sortedDigits)
  IN  IF Len(sortedDigits) > 1 /\ sortedDigits[1] = 0 /\ firstNonZeroIndex > 1
      THEN [sortedDigits EXCEPT ![1] = sortedDigits[firstNonZeroIndex],
                                ![firstNonZeroIndex] = sortedDigits[1]]
      ELSE sortedDigits

\* validateSmallestNumber testing `constraint.sumOfDigits` for truthiness, so
\* that a declared sum of 0 is not checked
validateSmallestNumber_truthySum(constraint, digits) ==
  LET currentNumber  == ParseIntJoin(digits)
      actualSum      == SumDigits(digits)
      smallestNumber == ParseIntJoin(SmallestArrangement(digits))
      satisfied      == currentNumber = smallestNumber
  IN  IF /\ Has(constraint, "sumOfDigits") /\ constraint.sumOfDigits # 0
         /\ actualSum # constraint.sumOfDigits
      THEN Verdict(constraint, FALSE,
             Msg("Sum of digits is, not", <<actualSum, constraint.sumOfDigits>>))
      ELSE IF Has(constraint, "noRepeat") /\ constraint.noRepeat /\ HasRepeat(digits)
      THEN Verdict(constraint, FALSE, Msg("Cannot repeat digits", <<>>))
      ELSE Verdict(constraint, satisfied,
             IF satisfied
             THEN Msg("is the smallest", <<currentNumber>>)
             ELSE Msg("is not the smallest", <<currentNumber, smallestNumber>>))

validateSmallestNumber(constraint, digits) ==
  LET currentNumber  == ParseIntJoin(digits)
      actualSum      == SumDigits(digits)
      smallestNumber == ParseIntJoin(SmallestArrangement(digits))
      satisfied      == currentNumber = smallestNumber
  IN  IF Has(constraint, "sumOfDigits") /\ actualSum # constraint.sumOfDigits
      THEN Verdict(constraint, FALSE,
             Msg("Sum of digits is, not", <<actualSum, constraint.sumOfDigits>>))
      ELSE IF Has(constraint, "noRepeat") /\ constraint.noRepeat /\ HasRepeat(digits)
      THEN Verdict(constraint, FALSE, Msg("Cannot repeat digits", <<>>))
      ELSE Verdict(constraint, satisfied,
             IF satisfied
             THEN Msg("is the smallest", <<currentNumber>>)
             ELSE Msg("is not the smallest", <<currentNumber, smallestNumber>>))

validateNoRepeatWithinSlot(constraint, digits) ==
  LET satisfied == ~HasRepeat(digits)
  IN  Verdict(constraint, satisfied,
        IF satisfied THEN Msg("No repeated digits", <<>>)
                     ELSE Msg("Contains repeated digits", <<>>))

\* the digits of the slots from index i on, one after the other
RECURSIVE PooledDigits(_, _, _)
PooledDigits(slots, g, i) ==
  IF i > Len(slots) THEN <<>>
  ELSE SlotDigits(slots[i], g) \o PooledDigits(slots, g, i + 1)

\* the check made on the digits of all slots pooled, not slot by slot
NoRepeatAcrossFrom_pooled(constraint, slots, g, i) ==
  LET digits == PooledDigits(slots, g, i)
  IN  IF SomeNull(digits)
      THEN Verdict(constraint, FALSE, Msg("Incomplete", <<>>))
      ELSE IF HasRepeat(digits)
      THEN Verdict(constraint, FALSE, Msg("Numbers have repeated digits", <<>>))
      ELSE Verdict(constraint, TRUE, Msg("No repeated digits in any number", <<>>))

\* the loop over state.puzzle.slots, in declaration order, from index i on
RECURSIVE NoRepeatAcrossFrom(_, _, _, _)
NoRepeatAcrossFrom(constraint, slots, g, i) ==
  IF i > Len(slots)
  THEN Verdict(constraint, TRUE, Msg("No repeated digits in any number", <<>>))
  ELSE LET digits == SlotDigits(slots[i], g)
       IN  IF SomeNull(digits)
           THEN Verdict(constraint, FALSE, Msg("Incomplete", <<>>))
           ELSE IF HasRepeat(digits)
           THEN Verdict(constraint, FALSE, Msg(slots[i].label \o " has repeated digits", <<>>))
           ELSE NoRepeatAcrossFrom(constraint, slots, g, i + 1)

validateNoRepeatAcrossSlots(constraint, state) ==
  NoRepeatAcrossFrom(constraint, state.puzzle.slots, state.grid, 1)

(***************************************************************************)
(* engine.ts: place values                                                 *)
(***************************************************************************)
\* the keys of placeIndex: `length - k` for place k; 0 for any other name
PlaceOffset(place) ==
  CASE place = "ones"         -> 1
    [] place = "tens"         -> 2
    [] place = "hundreds"     -> 3
    [] place = "thousands"    -> 4
    [] place = "tenThousands" -> 5
    [] OTHER                  -> 0

getDigitAtPlace_fromFirst(digits, place) ==
  LET offset == PlaceOffset(place)
  IN  IF offset = 0 \/ offset > Len(digits) THEN Null ELSE digits[offset]

getDigitAtPlace_defaultZero(digits, place) ==
  LET offset     == PlaceOffset(place)
      placeIndex == Len(digits) - offset + 1
  IN  IF offset = 0 \/ placeIndex < 1 THEN 0 ELSE digits[placeIndex]

\* the digit at the place, Null when the name is unknown or the slot too short
getDigitAtPlace(digits, place) ==
  LET offset     == PlaceOffset(place)
      placeIndex == Len(digits) - offset + 1      \* 1-based
  IN  IF offset = 0 \/ placeIndex < 1 THEN Null ELSE digits[placeIndex]

\* placeMultiplier, `?? 1` for a name that is not a key
PlaceMultiplier(place) ==
  CASE place = "ones"         -> 1
    [] place = "tens"         -> 10
    [] place = "hundreds"     -> 100
    [] place = "thousands"    -> 1000
    [] place = "tenThousands" -> 10000
    [] OTHER                  -> 1

\* the for loop of validatePlaceValueSumEquals from place i on with the
\* running totalSum
RECURSIVE PlaceValueSumFrom(_, _, _, _)
PlaceValueSumFrom(constraint, digits, i, totalSum) ==
  IF i > Len(constraint.places)
  THEN LET satisfied == totalSum = constraint.sum
       IN  Verdict(constraint, satisfied,
             IF satisfied THEN Msg("Sum equals", <<constraint.sum>>)
                          ELSE Msg("Sum is, not", <<totalSum, constraint.sum>>))
  ELSE LET place == constraint.places[i]
           digit == getDigitAtPlace(digits, place)
       IN  IF digit = Null
           THEN Verdict(constraint, FALSE, Msg("Place " \o place \o " not found", <<>>))
           ELSE PlaceValueSumFrom(constraint, digits, i + 1,
                                  totalSum + digit * PlaceMultiplier(place))

validatePlaceValueSumEquals_defaultSum(constraint, digits) ==
  IF ~Has(constraint, "places")
  THEN Verdict(constraint, FALSE, Msg("Invalid constraint configuration", <<>>))
  ELSE PlaceValueSumFrom(
         [f \in DOMAIN constraint \cup {"sum"} |->
            IF f \in DOMAIN constraint THEN constraint[f] ELSE 0],
         digits, 1, 0)

validatePlaceValueSumEquals(constraint, digits) ==
  IF ~Has(constraint, "places") \/ ~Has(constraint, "sum")
  THEN Verdict(constraint, FALSE, Msg("Invalid constraint configuration", <<>>))
  ELSE PlaceValueSumFrom(constraint, digits, 1, 0)

Abs(x) == IF x < 0 THEN 0 - x ELSE x

validatePlaceValueDifferenceBetweenSlots_absolute(constraint, state) ==
  IF \/ ~Truthy(constraint, "slotA") \/ ~Truthy(constraint, "slotB")
     \/ ~Truthy(constraint, "place") \/ ~Has(constraint, "difference")
  THEN Verdict(constraint, FALSE, Msg("Invalid constraint configuration", <<>>))
  ELSE
  LET slots == state.puzzle.slots
      slotA == FindSlot(slots, constraint.slotA)
      slotB == FindSlot(slots, constraint.slotB)
  IN  IF slotA = 0 \/ slotB = 0
      THEN Verdict(constraint, FALSE, Msg("Slot not found", <<>>))
      ELSE
      LET digitsA == SlotDigits(slots[slotA], state.grid)
          digitsB == SlotDigits(slots[slotB], state.grid)
      IN  IF SomeNull(digitsA) \/ SomeNull(digitsB)
          THEN Verdict(constraint, FALSE, Msg("Incomplete", <<>>))
          ELSE
          LET digitA == getDigitAtPlace(digitsA, constraint.place)
              digitB == getDigitAtPlace(digitsB, constraint.place)
              actualDifference == Abs(digitA - digitB)
              satisfied == actualDifference = constraint.difference
          IN  IF digitA = Null \/ digitB = Null
              THEN Verdict(constraint, FALSE,
                     Msg("Place " \o constraint.place \o " not found", <<>>))
              ELSE Verdict(constraint, satisfied,
                     IF satisfied
                     THEN Msg("Difference is", <<constraint.difference>>)
                     ELSE Msg("Difference is, not",
                              <<actualDifference, constraint.difference>>))

validatePlaceValueDifferenceWithinSlot_signed(constraint, digits) ==
  IF \/ ~Truthy(constraint, "placeA") \/ ~Truthy(constraint, "placeB")
     \/ ~Has(constraint, "difference")
  THEN Verdict(constraint, FALSE, Msg("Invalid constraint configuration", <<>>))
  ELSE
  LET digitA == getDigitAtPlace(digits, constraint.placeA)
      digitB == getDigitAtPlace(digits, constraint.placeB)
      actualDifference == digitA - digitB
      satisfied == actualDifference = constraint.difference
  IN  IF digitA = Null \/ digitB = Null
      THEN Verdict(constraint, FALSE, Msg("Place not found", <<>>))
      ELSE Verdict(constraint, satisfied,
             IF satisfied
             THEN Msg("Difference is", <<constraint.difference>>)
             ELSE Msg("Difference is, not",
                      <<actualDifference, constraint.difference>>))

validatePlaceValueDifferenceBetweenSlots(constraint, state) ==
  IF \/ ~Truthy(constraint, "slotA") \/ ~Truthy(constraint, "slotB")
     \/ ~Truthy(constraint, "place") \/ ~Has(constraint, "difference")
  THEN Verdict(constraint, FALSE, Msg("Invalid constraint configuration", <<>>))
  ELSE
  LET slots == state.puzzle.slots
      slotA == FindSlot(slots, constraint.slotA)
      slotB == FindSlot(slots, constraint.slotB)
  IN  IF slotA = 0 \/ slotB = 0
      THEN Verdict(constraint, FALSE, Msg("Slot not found", <<>>))
      ELSE
      LET digitsA == SlotDigits(slots[slotA], state.grid)
          digitsB == SlotDigits(slots[slotB], state.grid)
      IN  IF SomeNull(digitsA) \/ SomeNull(digitsB)
          THEN Verdict(constraint, FALSE, Msg("Incomplete", <<>>))
          ELSE
          LET digitA == getDigitAtPlace(digitsA, constraint.place)
              digitB == getDigitAtPlace(digitsB, constraint.place)
              actualDifference == digitA - digitB
              satisfied == actualDifference = constraint.difference
          IN  IF digitA = Null \/ digitB = Null
              THEN Verdict(constraint, FALSE,
                     Msg("Place " \o constraint.place \o " not found", <<>>))
              ELSE Verdict(constraint, satisfied,
                     IF satisfied
                     THEN Msg("Difference is", <<constraint.difference>>)
                     ELSE Msg("Difference is, not",
                              <<actualDifference, constraint.difference>>))

validatePlaceValueDifferenceWithinSlot(constraint, digits) ==
  IF \/ ~Truthy(constraint, "placeA") \/ ~Truthy(constraint, "placeB")
     \/ ~Has(constraint, "difference")
  THEN Verdict(constraint, FALSE, Msg("Invalid constraint configuration", <<>>))
  ELSE
  LET digitA == getDigitAtPlace(digits, constraint.placeA)
      digitB == getDigitAtPlace(digits, constraint.placeB)
      actualDifference == Abs(digitA - digitB)
      satisfied == actualDifference = constraint.difference
  IN  IF digitA = Null \/ digitB = Null
      THEN Verdict(constraint, FALSE, Msg("Place not found", <<>>))
      ELSE Verdict(constraint, satisfied,
             IF satisfied
             THEN Msg("Difference is", <<constraint.difference>>)
             ELSE Msg("Difference is, not",
                      <<actualDifference, constraint.difference>>))

validateSlotDifferenceEqualsSlot_sum(constraint, state) ==
  IF \/ ~Truthy(constraint, "slotA") \/ ~Truthy(constraint, "slotB")
     \/ ~Truthy(constraint, "resultSlot")
  THEN Verdict(constraint, FALSE, Msg("Invalid constraint configuration", <<>>))
  ELSE
  LET slots      == state.puzzle.slots
      slotA      == FindSlot(slots, constraint.slotA)
      slotB      == FindSlot(slots, constraint.slotB)
      resultSlot == FindSlot(slots, constraint.resultSlot)
  IN  IF slotA = 0 \/ slotB = 0 \/ resultSlot = 0
      THEN Verdict(constraint, FALSE, Msg("Slot not found", <<>>))
      ELSE
      LET digitsA      == SlotDigits(slots[slotA], state.grid)
          digitsB      == SlotDigits(slots[slotB], state.grid)
          digitsResult == SlotDigits(slots[resultSlot], state.grid)
      IN  IF SomeNull(digitsA) \/ SomeNull(digitsB) \/ SomeNull(digitsResult)
          THEN Verdict(constraint, FALSE, Msg("Incomplete", <<>>))
          ELSE
          LET numberA        == ParseIntJoin(digitsA)
              numberB        == ParseIntJoin(digitsB)
              numberResult   == ParseIntJoin(digitsResult)
              expectedResult == numberA + numberB
              satisfied      == numberResult = expectedResult
          IN  Verdict(constraint, satisfied,
                IF satisfied
                THEN Msg("A - B = R", <<numberA, numberB, numberResult>>)
                ELSE Msg("A - B = E, not R",
                         <<numberA, numberB, expectedResult, numberResult>>))

validateSlotDifferenceEqualsSlot(constraint, state) ==
  IF \/ ~Truthy(constraint, "slotA") \/ ~Truthy(constraint, "slotB")
     \/ ~Truthy(constraint, "resultSlot")
  THEN Verdict(constraint, FALSE, Msg("Invalid constraint configuration", <<>>))
  ELSE
  LET slots      == state.puzzle.slots
      slotA      == FindSlot(slots, constraint.slotA)
      slotB      == FindSlot(slots, constraint.slotB)
      resultSlot == FindSlot(slots, constraint.resultSlot)
  IN  IF slotA = 0 \/ slotB = 0 \/ resultSlot = 0
      THEN Verdict(constraint, FALSE, Msg("Slot not found", <<>>))
      ELSE
      LET digitsA      == SlotDigits(slots[slotA], state.grid)
          digitsB      == SlotDigits(slots[slotB], state.grid)
          digitsResult == SlotDigits(slots[resultSlot], state.grid)
      IN  IF SomeNull(digitsA) \/ SomeNull(digitsB) \/ SomeNull(digitsResult)
          THEN Verdict(constraint, FALSE, Msg("Incomplete", <<>>))
          ELSE
          LET numberA        == ParseIntJoin(digitsA)
              numberB        == ParseIntJoin(digitsB)
              numberResult   == ParseIntJoin(digitsResult)
              expectedResult == numberA - numberB
              satisfied      == numberResult = expectedResult
          IN  Verdict(constraint, satisfied,
                IF satisfied
                THEN Msg("A - B = R", <<numberA, numberB, numberResult>>)
                ELSE Msg("A - B = E, not R",
                         <<numberA, numberB, expectedResult, numberResult>>))

RECURSIVE CellRestrictionFrom_emptyFails(_, _, _, _)
CellRestrictionFrom_emptyFails(constraint, cells, g, i) ==
  IF i > Len(cells)
  THEN Verdict(constraint, TRUE, Msg("All cells satisfy restrictions", <<>>))
  ELSE
  LET digit == GridGet(g, cells[i].id)
  IN  IF ~(Has(cells[i], "color") /\ cells[i].color = constraint.color)
      THEN CellRestrictionFrom_emptyFails(constraint, cells, g, i + 1)
      ELSE IF digit = Null
      THEN Verdict(constraint, FALSE, Msg("Incomplete", <<>>))
      ELSE IF /\ Has(constraint, "notAllowed")
              /\ \E k \in 1..Len(constraint.notAllowed) :
                   constraint.notAllowed[k] = digit
      THEN Verdict(constraint, FALSE, Msg("Digit is not allowed", <<digit>>))
      ELSE IF /\ Has(constraint, "allowedRange")
              /\ (digit < constraint.allowedRange[1]
                  \/ digit > constraint.allowedRange[2])
      THEN Verdict(constraint, FALSE,
             Msg("Digit is not in allowed range",
                 <<digit, constraint.allowedRange[1], constraint.allowedRange[2]>>))
      ELSE CellRestrictionFrom_emptyFails(constraint, cells, g, i + 1)

\* the loop over coloredCells: the layout's cells in key order, those of
\* another color passed over, from index i on
RECURSIVE CellRestrictionFrom(_, _, _, _)
CellRestrictionFrom(constraint, cells, g, i) ==
  IF i > Len(cells)
  THEN Verdict(constraint, TRUE, Msg("All cells satisfy restrictions", <<>>))
  ELSE
  LET digit == GridGet(g, cells[i].id)
  IN  IF ~(Has(cells[i], "color") /\ cells[i].color = constraint.color)
      THEN CellRestrictionFrom(constraint, cells, g, i + 1)
      ELSE IF digit = Null
      THEN CellRestrictionFrom(constraint, cells, g, i + 1)
      ELSE IF /\ Has(constraint, "notAllowed")
              /\ \E k \in 1..Len(constraint.notAllowed) :
                   constraint.notAllowed[k] = digit
      THEN Verdict(constraint, FALSE, Msg("Digit is not allowed", <<digit>>))
      ELSE IF /\ Has(constraint, "allowedRange")
              /\ (digit < constraint.allowedRange[1]
                  \/ digit > constraint.allowedRange[2])
      THEN Verdict(constraint, FALSE,
             Msg("Digit is not in allowed range",
                 <<digit, constraint.allowedRange[1], constraint.allowedRange[2]>>))
      ELSE CellRestrictionFrom(constraint, cells, g, i + 1)

validateCellDigitRestriction(constraint, state) ==
  IF ~Truthy(constraint, "color")
  THEN Verdict(constraint, FALSE, Msg("Invalid constraint configuration", <<>>))
  ELSE CellRestrictionFrom(constraint, state.puzzle.layout.cells, state.grid, 1)

(***************************************************************************)
(* engine.ts: dispatch, direct answer, validateConstraints, isPuzzleSolved *)
(***************************************************************************)
UnknownConstraintType_satisfied(constraint) ==
  Verdict(constraint, TRUE, Msg("Unknown constraint type", <<>>))

\* the default branch of the switch over constraint.type
UnknownConstraintType(constraint) ==
  Verdict(constraint, FALSE, Msg("Unknown constraint type", <<>>))

validateConstraint(constraint, state) ==
  IF constraint.type = "noRepeatAcrossSlots"
  THEN validateNoRepeatAcrossSlots(constraint, state)
  ELSE IF /\ constraint.type = "placeValueDifference"
          /\ Truthy(constraint, "slotA") /\ Truthy(constraint, "slotB")
  THEN validatePlaceValueDifferenceBetweenSlots(constraint, state)
  ELSE IF constraint.type = "slotDifferenceEqualsSlot"
  THEN validateSlotDifferenceEqualsSlot(constraint, state)
  ELSE IF constraint.type = "cellDigitRestriction"
  THEN validateCellDigitRestriction(constraint, state)
  ELSE
  LET slot == FindSlotOf(state.puzzle.slots, constraint, "slot")
  IN  IF slot = 0
      THEN Verdict(constraint, FALSE, Msg("Slot not found", <<>>))
      ELSE
      LET digits == SlotDigits(state.puzzle.slots[slot], state.grid)
      IN  IF SomeNull(digits)
          THEN Verdict(constraint, FALSE, Msg("Incomplete", <<>>))
          ELSE
          CASE constraint.type = "greatestNumber" ->
                 validateGreatestNumber(constraint, digits)
            [] constraint.type = "smallestNumber" ->
                 validateSmallestNumber(constraint, digits)
            [] constraint.type = "noRepeatWithinSlot" ->
                 validateNoRepeatWithinSlot(constraint, digits)
            [] constraint.type = "placeValueSumEquals" ->
                 validatePlaceValueSumEquals(constraint, digits)
            [] constraint.type = "placeValueDifference" ->
                 validatePlaceValueDifferenceWithinSlot(constraint, digits)
            [] OTHER ->
                 UnknownConstraintType(constraint)

\* one entry [slotId, expectedDigits] of Object.entries(state.puzzle.answer):
\* TRUE when the loop body reaches its end (or `continue`s), FALSE when it
\* returns false
AnswerEntryMatches(entry, state) ==
  LET slot == FindSlot(state.puzzle.slots, entry.slotId)
  IN  IF slot = 0 THEN TRUE
      ELSE
      LET actualDigits == SlotDigits(state.puzzle.slots[slot], state.grid)
      IN  /\ ~SomeNull(actualDigits)
          /\ Len(actualDigits) = Len(entry.expectedDigits)
          /\ \A i \in 1..Len(actualDigits) :
               actualDigits[i] = entry.expectedDigits[i]

\* checkDirectAnswer with the loop left after its first entry
checkDirectAnswer_firstEntryOnly(state) ==
  IF ~Has(state.puzzle, "answer") THEN FALSE
  ELSE Len(state.puzzle.answer) = 0
       \/ AnswerEntryMatches(state.puzzle.answer[1], state)

checkDirectAnswer(state) ==
  IF ~Has(state.puzzle, "answer") THEN FALSE
  ELSE \A k \in 1..Len(state.puzzle.answer) :
         AnswerEntryMatches(state.puzzle.answer[k], state)

\* validateConstraints without the direct-answer check
validateConstraints_noBypass(state) ==
  [i \in 1..Len(state.puzzle.constraints) |->
     validateConstraint(state.puzzle.constraints[i], state)]

\* validateConstraints with one summary verdict on the bypass path
validateConstraints_singleVerdict(state) ==
  IF Has(state.puzzle, "answer") /\ checkDirectAnswer(state)
  THEN << [constraintId |-> "answer", description |-> "Direct answer",
           satisfied |-> TRUE, message |-> Msg("Correct answer!", <<>>)] >>
  ELSE [i \in 1..Len(state.puzzle.constraints) |->
          validateConstraint(state.puzzle.constraints[i], state)]

validateConstraints(state) ==
  IF Has(state.puzzle, "answer") /\ checkDirectAnswer(state)
  THEN [i \in 1..Len(state.puzzle.constraints) |->
          Verdict(state.puzzle.constraints[i], TRUE, Msg("Correct answer!", <<>>))]
  ELSE [i \in 1..Len(state.puzzle.constraints) |->
          validateConstraint(state.puzzle.constraints[i], state)]

\* validationResults.every(result => result.satisfied): the results are
\* visited in order, the first one not satisfied ends the visit with false
RECURSIVE EveryFrom(_, _)
EveryFrom(results, i) ==
  IF i > Len(results) THEN TRUE
  ELSE IF ~results[i].satisfied THEN FALSE
  ELSE EveryFrom(results, i + 1)

\* isPuzzleSolved that wants at least one verdict
isPuzzleSolved_nonEmpty(results) == Len(results) > 0 /\ EveryFrom(results, 1)

isPuzzleSolved(results) == EveryFrom(results, 1)

(***************************************************************************)
(* Puzzle definitions given to the engine.  Their shapes are those of      *)
(* puzzles.ts: a cross of two slots sharing one cell, constraints with the *)
(* optional properties of types.ts present or absent, answers as in q7/q8. *)
(***************************************************************************)
CrossCells == << [id |-> "0,1"], [id |-> "1,1"], [id |-> "2,1"], [id |-> "1,0"] >>

ColoredCells ==
  << [id |-> "0,1", color |-> "green"], [id |-> "1,1", color |-> "yellow"],
     [id |-> "2,1", color |-> "green"], [id |-> "1,0"] >>

Number1 == [id |-> "number1", label |-> "Number 1", cells |-> <<"0,1", "1,1", "2,1">>]

Number2 == [id |-> "number2", label |-> "Number 2", cells |-> <<"1,0", "1,1">>]

CrossSlots == <<Number1, Number2>>

\* three slots as in q9: number1 and number3 share a cell, number2 is apart
ThreeSlots ==
  << [id |-> "number1", label |-> "Number 1", cells |-> <<"0,1", "1,1">>],
     [id |-> "number2", label |-> "Number 2", cells |-> <<"2,1">>],
     [id |-> "number3", label |-> "Number 3", cells |-> <<"1,0", "1,1">>] >>

\* a Puzzle without a direct answer
MkPuzzle(id, cells, slots, constraints) ==
  [id          |-> id,
   layout      |-> [rows |-> 3, cols |-> 2, cells |-> cells],
   digits      |-> <<0, 0, 1, 2>>,
   slots       |-> slots,
   constraints |-> constraints]

\* a Puzzle that declares `answer`: the entries of the answer object in key
\* order
MkAnswerPuzzle(id, cells, slots, constraints, answer) ==
  [id          |-> id,
   layout      |-> [rows |-> 3, cols |-> 2, cells |-> cells],
   digits      |-> <<0, 0, 1, 2>>,
   slots       |-> slots,
   constraints |-> constraints,
   answer      |-> answer]

Entry(slotId, expectedDigits) == [slotId |-> slotId, expectedDigits |-> expectedDigits]

PuzzleNames ==
  {"noConstraints", "greatestSmallest", "smallestGreatest", "noRepeat",
   "sumOfDigits", "answer", "answerPartial", "answerGhost", "answerShort",
   "answerLong", "ghostSlot", "offLayout", "unknownKinds", "placeValues",
   "invalidConfig", "colors", "slotArithmetic", "noRepeatAcross",
   "placeNotFound", "placeDifference", "slotArithmeticApart",
   "colorsBoth", "invalidConfigMore"}

Catalogue(name) ==
  CASE name = "noConstraints" ->          \* q1: no constraint at all
         MkPuzzle(name, CrossCells, CrossSlots, <<>>)
    [] name = "greatestSmallest" ->       \* q4
         MkPuzzle(name, CrossCells, CrossSlots,
           << [id |-> "c1", type |-> "greatestNumber", slot |-> "number1",
               description |-> "Make the greatest 3-digit number"],
              [id |-> "c2", type |-> "smallestNumber", slot |-> "number2",
               noRepeat |-> TRUE,
               description |-> "Make the smallest 2-digit number without repeating the digits"] >>)
    [] name = "smallestGreatest" ->
         MkPuzzle(name, CrossCells, CrossSlots,
           << [id |-> "c1", type |-> "smallestNumber", slot |-> "number1",
               description |-> "Make the smallest 3-digit number"],
              [id |-> "c2", type |-> "greatestNumber", slot |-> "number2",
               noRepeat |-> FALSE,
               description |-> "Make the greatest 2-digit number"] >>)
    [] name = "noRepeat" ->               \* q5 c1, q4 c2
         MkPuzzle(name, CrossCells, CrossSlots,
           << [id |-> "c1", type |-> "noRepeatWithinSlot", slot |-> "number1",
               description |-> "Do not repeat digits in number 1"],
              [id |-> "c2", type |-> "greatestNumber", slot |-> "number1",
               noRepeat |-> TRUE,
               description |-> "Make the greatest 3-digit number without repeating the digits"],
              [id |-> "c3", type |-> "smallestNumber", slot |-> "number1",
               noRepeat |-> TRUE,
               description |-> "Make the smallest 3-digit number without repeating the digits"] >>)
    [] name = "sumOfDigits" ->            \* q7 c1
         MkPuzzle(name, CrossCells, CrossSlots,
           << [id |-> "c1", type |-> "smallestNumber", slot |-> "number1",
               sumOfDigits |-> 3,
               description |-> "Make the smallest 3-digit number where the sum of all digits is 3"],
              [id |-> "c2", type |-> "smallestNumber", slot |-> "number1",
               sumOfDigits |-> 3, noRepeat |-> TRUE,
               description |-> "Smallest, digit sum 3, no repeated digit"],
              [id |-> "c3", type |-> "smallestNumber", slot |-> "number1",
               sumOfDigits |-> 2, noRepeat |-> TRUE,
               description |-> "Smallest, digit sum 2, no repeated digit"],
              [id |-> "c4", type |-> "smallestNumber", slot |-> "number2",
               sumOfDigits |-> 0,
               description |-> "Smallest 2-digit number with digit sum 0"] >>)
    [] name = "answer" ->                 \* q7, q8: an answer the constraints reject
         MkAnswerPuzzle(name, CrossCells, CrossSlots,
           << [id |-> "c1", type |-> "greatestNumber", slot |-> "number1",
               description |-> "Make the greatest 3-digit number"],
              [id |-> "c2", type |-> "smallestNumber", slot |-> "number2",
               description |-> "Make the smallest 2-digit number"] >>,
           << Entry("number1", <<1, 2, 0>>), Entry("number2", <<0, 2>>) >>)
    [] name = "answerPartial" ->          \* an answer for one of the two slots
         MkAnswerPuzzle(name, CrossCells, CrossSlots,
           << [id |-> "c1", type |-> "greatestNumber", slot |-> "number1",
               description |-> "Make the greatest 3-digit number"],
              [id |-> "c2", type |-> "noRepeatWithinSlot", slot |-> "number2",
               description |-> "Do not repeat digits in number 2"] >>,
           << Entry("number1", <<2, 1, 0>>) >>)
    [] name = "answerGhost" ->            \* an answer, and a slot id no slot has
         MkAnswerPuzzle(name, CrossCells, CrossSlots,
           << [id |-> "c1", type |-> "greatestNumber", slot |-> "number9",
               description |-> "Make the greatest number"],
              [id |-> "c2", type |-> "smallestNumber", slot |-> "number1",
               description |-> "Make the smallest 3-digit number"] >>,
           << Entry("number9", <<1>>), Entry("number1", <<1, 0, 0>>) >>)
    [] name = "answerShort" ->            \* an answer shorter than its slot
         MkAnswerPuzzle(name, CrossCells, CrossSlots,
           << [id |-> "c1", type |-> "greatestNumber", slot |-> "number1",
               description |-> "Make the greatest 3-digit number"] >>,
           << Entry("number1", <<2, 1>>) >>)
    [] name = "answerLong" ->             \* an answer longer than its slot
         MkAnswerPuzzle(name, CrossCells, CrossSlots,
           << [id |-> "c1", type |-> "smallestNumber", slot |-> "number2",
               description |-> "Make the smallest 2-digit number"] >>,
           << Entry("number2", <<1, 0, 0>>) >>)
    [] name = "ghostSlot" ->              \* constraints naming a slot id no slot has
         MkPuzzle(name, CrossCells, CrossSlots,
           << [id |-> "c1", type |-> "greatestNumber", slot |-> "number9",
               description |-> "Make the greatest number"],
              [id |-> "c2", type |-> "smallestNumber",
               description |-> "Make the smallest number"],
              [id |-> "c3", type |-> "placeValueDifference", slotA |-> "number1",
               slotB |-> "number9", place |-> "ones", difference |-> 0,
               description |-> "Ones places are equal"],
              [id |-> "c4", type |-> "slotDifferenceEqualsSlot", slotA |-> "number1",
               slotB |-> "number2", resultSlot |-> "number9",
               description |-> "Number 1 minus number 2 equals number 9"],
              [id |-> "c5", type |-> "placeValueSumEquals", slot |-> "number9",
               places |-> <<"ones">>, sum |-> 1,
               description |-> "Ones place is 1"] >>)
    [] name = "offLayout" ->              \* a slot cell the layout does not hold
         MkPuzzle(name, CrossCells,
           << Number1,
              [id |-> "number2", label |-> "Number 2", cells |-> <<"1,0", "9,9">>] >>,
           << [id |-> "c1", type |-> "noRepeatWithinSlot", slot |-> "number2",
               description |-> "Do not repeat digits in number 2"],
              [id |-> "c2", type |-> "greatestNumber", slot |-> "number1",
               description |-> "Make the greatest 3-digit number"] >>)
    [] name = "unknownKinds" ->           \* q5
         MkPuzzle(name, CrossCells, CrossSlots,
           << [id |-> "c1", type |-> "greatestNumber", slot |-> "number1",
               noRepeat |-> TRUE,
               description |-> "Make the greatest 3-digit number without repeating the digits"],
              [id |-> "c2", type |-> "sameDigit", slot |-> "number2",
               description |-> "Make a 2-digit number using the same digit in all places"],
              [id |-> "c3", type |-> "smallestUsingReference", slot |-> "number1",
               referenceSlot |-> "number2",
               description |-> "Make the smallest 3-digit number using number 2"] >>)
    [] name = "placeValues" ->            \* q9 c1, q8 c4, q7 c2
         MkPuzzle(name, CrossCells, CrossSlots,
           << [id |-> "c1", type |-> "placeValueSumEquals", slot |-> "number1",
               places |-> <<"tens", "ones">>, sum |-> 21,
               description |-> "Tens and ones place values sum to 21"],
              [id |-> "c2", type |-> "placeValueDifference", slot |-> "number1",
               placeA |-> "hundreds", placeB |-> "ones", difference |-> 1,
               description |-> "Difference between hundreds and ones place should be 1"],
              [id |-> "c3", type |-> "placeValueDifference", slotA |-> "number1",
               slotB |-> "number2", place |-> "tens", difference |-> 1,
               description |-> "Tens place of number 1 is 1 more than tens place of number 2"],
              [id |-> "c4", type |-> "placeValueSumEquals", slot |-> "number2",
               places |-> <<"hundreds">>, sum |-> 100,
               description |-> "Hundreds place value is 100"] >>)
    [] name = "invalidConfig" ->          \* required properties left out
         MkPuzzle(name, CrossCells, CrossSlots,
           << [id |-> "c1", type |-> "placeValueSumEquals", slot |-> "number1",
               places |-> <<"ones">>,
               description |-> "Ones place value"],
              [id |-> "c2", type |-> "placeValueDifference", slot |-> "number1",
               placeA |-> "tens",
               description |-> "Difference from the tens place"],
              [id |-> "c3", type |-> "slotDifferenceEqualsSlot", slotA |-> "number1",
               slotB |-> "number2",
               description |-> "Number 1 minus number 2"],
              [id |-> "c4", type |-> "cellDigitRestriction",
               description |-> "Restricted cells"] >>)
    [] name = "colors" ->                 \* q8 c1, c2; q2 c1
         MkPuzzle(name, ColoredCells, CrossSlots,
           << [id |-> "c1", type |-> "cellDigitRestriction", color |-> "green",
               notAllowed |-> <<2>>,
               description |-> "Do not place 2 in any green cell"],
              [id |-> "c2", type |-> "cellDigitRestriction", color |-> "yellow",
               allowedRange |-> <<1, 2>>,
               description |-> "Yellow cells should only have digits greater than 0"],
              [id |-> "c3", type |-> "noRepeatAcrossSlots",
               description |-> "Do not repeat any digits in both the numbers"] >>)
    [] name = "slotArithmetic" ->         \* q9 c2
         MkPuzzle(name, CrossCells,
           << [id |-> "number1", label |-> "Number 1", cells |-> <<"0,1", "1,1">>],
              [id |-> "number2", label |-> "Number 2", cells |-> <<"2,1">>],
              [id |-> "number3", label |-> "Number 3", cells |-> <<"1,0", "1,1">>] >>,
           << [id |-> "c1", type |-> "slotDifferenceEqualsSlot", slotA |-> "number1",
               slotB |-> "number2", resultSlot |-> "number3",
               description |-> "Difference between number 1 and number 2 should equal number 3"] >>)

    [] name = "placeNotFound" ->          \* places the slots do not have
         MkPuzzle(name, CrossCells, CrossSlots,
           << [id |-> "c1", type |-> "placeValueSumEquals", slot |-> "number1",
               places |-> <<"ones", "thousands">>, sum |-> 1,
               description |-> "Thousands and ones place values sum to 1"],
              [id |-> "c2", type |-> "placeValueSumEquals", slot |-> "number1",
               places |-> <<"units">>, sum |-> 0,
               description |-> "Units place value is 0"],
              [id |-> "c3", type |-> "placeValueDifference", slot |-> "number2",
               placeA |-> "tens", placeB |-> "hundreds", difference |-> 1,
               description |-> "Difference between tens and hundreds place should be 1"],
              [id |-> "c4", type |-> "placeValueDifference", slot |-> "number2",
               placeA |-> "ones", placeB |-> "millions", difference |-> 0,
               description |-> "Ones and millions place are the same"],
              [id |-> "c5", type |-> "placeValueDifference", slotA |-> "number1",
               slotB |-> "number2", place |-> "hundreds", difference |-> 1,
               description |-> "Hundreds place of number 1 is 1 more than hundreds place of number 2"],
              [id |-> "c6", type |-> "placeValueDifference", slotA |-> "number1",
               slotB |-> "number2", place |-> "unit", difference |-> 0,
               description |-> "Unit place of number 1 equals unit place of number 2"] >>)
    [] name = "placeDifference" ->        \* q7 c2, q8 c4 and their variations
         MkPuzzle(name, CrossCells, CrossSlots,
           << [id |-> "c1", type |-> "placeValueDifference", slot |-> "number1",
               placeA |-> "hundreds", placeB |-> "ones", difference |-> 1,
               description |-> "Difference between hundreds and ones place should be 1"],
              [id |-> "c2", type |-> "placeValueDifference", slot |-> "number1",
               placeA |-> "ones", placeB |-> "hundreds", difference |-> 2,
               description |-> "Difference between ones and hundreds place should be 2"],
              [id |-> "c3", type |-> "placeValueDifference", slot |-> "number1",
               placeA |-> "hundreds", placeB |-> "ones", difference |-> 0 - 1,
               description |-> "Hundreds place is 1 less than ones place"],
              [id |-> "c4", type |-> "placeValueDifference", slotA |-> "number1",
               slotB |-> "number2", place |-> "ones", difference |-> 0 - 1,
               description |-> "Ones place of number 1 is 1 less than ones place of number 2"],
              [id |-> "c5", type |-> "placeValueDifference", slotA |-> "number2",
               slotB |-> "number1", place |-> "ones", difference |-> 1,
               description |-> "Ones place of number 2 is 1 more than ones place of number 1"],
              [id |-> "c6", type |-> "placeValueDifference", slotA |-> "number1",
               slotB |-> "number2", place |-> "tens", difference |-> 0,
               description |-> "Tens place of number 1 equals tens place of number 2"] >>)
    [] name = "slotArithmeticApart" ->    \* q9 c2 on slots sharing no cell
         MkPuzzle(name, CrossCells,
           << [id |-> "number1", label |-> "Number 1", cells |-> <<"0,1", "1,1">>],
              [id |-> "number2", label |-> "Number 2", cells |-> <<"2,1">>],
              [id |-> "number3", label |-> "Number 3", cells |-> <<"1,0">>] >>,
           << [id |-> "c1", type |-> "slotDifferenceEqualsSlot", slotA |-> "number1",
               slotB |-> "number2", resultSlot |-> "number3",
               description |-> "Difference between number 1 and number 2 should equal number 3"] >>)
    [] name = "colorsBoth" ->             \* both restrictions, none, no cell
         MkPuzzle(name, ColoredCells, CrossSlots,
           << [id |-> "c1", type |-> "cellDigitRestriction", color |-> "green",
               notAllowed |-> <<0>>, allowedRange |-> <<0, 2>>,
               description |-> "Green cells hold 1 or 2"],
              [id |-> "c2", type |-> "cellDigitRestriction", color |-> "yellow",
               notAllowed |-> <<1, 3>>,
               description |-> "Do not place 1 or 3 in any yellow cell"],
              [id |-> "c3", type |-> "cellDigitRestriction", color |-> "green",
               description |-> "Green cells"],
              [id |-> "c4", type |-> "cellDigitRestriction", color |-> "red",
               notAllowed |-> <<0, 1, 2, 3>>,
               description |-> "Do not place any digit in a red cell"] >>)
    [] name = "invalidConfigMore" ->      \* other required properties left out
         MkPuzzle(name, CrossCells, CrossSlots,
           << [id |-> "c1", type |-> "placeValueSumEquals", slot |-> "number2",
               sum |-> 0,
               description |-> "Place values sum to 0"],
              [id |-> "c2", type |-> "placeValueDifference", slot |-> "number1",
               placeA |-> "hundreds", placeB |-> "hundreds",
               description |-> "Difference between two places"],
              [id |-> "c3", type |-> "placeValueDifference", slotA |-> "number1",
               slotB |-> "number1", difference |-> 0,
               description |-> "Number 1 and number 1 have the same digit"],
              [id |-> "c4", type |-> "placeValueDifference", slotA |-> "number1",
               slotB |-> "number1", place |-> "ones",
               description |-> "Ones place of number 1 and number 1"],
              [id |-> "c5", type |-> "slotDifferenceEqualsSlot", slotB |-> "number2",
               resultSlot |-> "number2",
               description |-> "Minus number 2 equals number 2"],
              [id |-> "c6", type |-> "placeValueDifference", slot |-> "number2",
               placeB |-> "ones", difference |-> 0,
               description |-> "Difference from the ones place is 0"] >>)
    [] name = "noRepeatAcross" ->         \* q2 c1, with and without relatedSlots
         MkPuzzle(name, CrossCells, ThreeSlots,
           << [id |-> "c1", type |-> "noRepeatAcrossSlots",
               description |-> "Do not repeat any digits in the numbers"],
              [id |-> "c2", type |-> "noRepeatAcrossSlots",
               relatedSlots |-> <<"number1", "number2">>,
               description |-> "Do not repeat any digits in number 1 and number 2"] >>)

\* the keys of the grid map: Object.keys(puzzle.layout.cells)
CellIds(p) == {p.layout.cells[i].id : i \in 1..Len(p.layout.cells)}

\* the GameState handed to the engine
State == [puzzle |-> puzzle, grid |-> grid]

(***************************************************************************)
(* The engine applied to a GameState.                                      *)
(***************************************************************************)
\* the engine reads puzzle and grid only: the rest of the state is at rest
EngineOnly ==
  /\ availableDigits = <<>>
  /\ selectedDigit = Null
  /\ selectedDigitIndex = Null
  /\ isSubmitted = FALSE
  /\ health = 3
  /\ score = 0
  /\ currentPuzzleIndex = 0
  /\ globalScore = 0
  /\ globalHealth = 3
  /\ screen = "game"
  /\ nextButtons = 0
  /\ completionTimers = 0
  /\ gameOverTimers = 0
  /\ validationCalls = 0
  /\ puzzles = <<puzzle>>

Init ==
  /\ \E name \in PuzzleNames : puzzle = Catalogue(name)
  /\ grid \in [CellIds(puzzle) -> Digits \cup {Null}]
  /\ validationResults = <<>>
  /\ solved = FALSE
  /\ pc = "input"
  /\ EngineOnly

\* validationResults = validateConstraints(state)
Validate ==
  /\ pc = "input"
  /\ validationResults' = validateConstraints(State)
  /\ pc' = "validated"
  /\ UNCHANGED <<puzzle, grid, solved, gameVars>>

\* solved = isPuzzleSolved(validationResults)
Solved ==
  /\ pc = "validated"
  /\ solved' = isPuzzleSolved(validationResults)
  /\ pc' = "solved"
  /\ UNCHANGED <<puzzle, grid, validationResults, gameVars>>

Next == Validate \/ Solved

Spec == Init /\ [][Next]_vars

(***************************************************************************)
(* Vocabulary of the properties: what the grid holds, read from the state  *)
(* alone.                                                                  *)
(***************************************************************************)
Validated == pc # "input"

Constraints == puzzle.constraints

\* the cell is empty: null, or no key of the grid map
EmptyCell(cellId) == cellId \notin DOMAIN grid \/ grid[cellId] = Null

FullSlot(slot) == \A k \in 1..Len(slot.cells) : ~EmptyCell(slot.cells[k])

\* the digits of a full slot, in the slot's declared order
CellDigits(slot) == [k \in 1..Len(slot.cells) |-> grid[slot.cells[k]]]

RECURSIVE Pow10(_)
Pow10(n) == IF n = 0 THEN 1 ELSE 10 * Pow10(n - 1)

RECURSIVE WeightedSum(_, _)
WeightedSum(d, k) ==
  IF k > Len(d) THEN 0 ELSE d[k] * Pow10(Len(d) - k) + WeightedSum(d, k + 1)

\* the base-10 number the digit sequence d writes
NumberOf(d) == WeightedSum(d, 1)

\* every arrangement of the digits of d
Arrangements(d) ==
  {[k \in 1..Len(d) |-> d[f[k]]] : f \in Permutations(1..Len(d))}

Distinct(d) == \A j, k \in 1..Len(d) : j # k => d[j] # d[k]

\* verdict i was produced by the evaluation of constraint i, not by the
\* direct-answer bypass
PerConstraint(i) == Validated /\ validationResults[i].message.text # "Correct answer!"

\* the slot a slot-targeted constraint names, when the puzzle has it
SlotExists(c) == Has(c, "slot") /\ \E s \in 1..Len(puzzle.slots) : puzzle.slots[s].id = c.slot

TargetSlot(c) == puzzle.slots[CHOOSE s \in 1..Len(puzzle.slots) : puzzle.slots[s].id = c.slot]

Flagged(c, field) == Has(c, field) /\ c[field] = TRUE

(***************************************************************************)
(* Direct-answer bypass                                                    *)
(***************************************************************************)
\* every slot the answer lists holds exactly the answer's digits: same
\* length, equal digit by digit, no empty cell
GridHoldsAnswer ==
  /\ Has(puzzle, "answer")
  /\ \A k \in 1..Len(puzzle.answer) : \A s \in 1..Len(puzzle.slots) :
       puzzle.slots[s].id = puzzle.answer[k].slotId =>
         /\ Len(puzzle.slots[s].cells) = Len(puzzle.answer[k].expectedDigits)
         /\ \A j \in 1..Len(puzzle.slots[s].cells) :
              /\ ~EmptyCell(puzzle.slots[s].cells[j])
              /\ grid[puzzle.slots[s].cells[j]] = puzzle.answer[k].expectedDigits[j]

\* C1: when the puzzle declares an answer and every slot listed in it holds
\* exactly the answer digits, validateConstraints reports every declared
\* constraint satisfied, whatever the evaluation of the constraint on the
\* same grid concludes.
C1_DirectAnswerBypass ==
  (Validated /\ GridHoldsAnswer) =>
    /\ Len(validationResults) = Len(Constraints)
    /\ \A i \in 1..Len(validationResults) : validationResults[i].satisfied

\* the grid holds the answer, the constraints evaluated on it reject it, and
\* the verdicts are out
C1_Witness ==
  /\ Validated /\ GridHoldsAnswer
  /\ \E i \in 1..Len(Constraints) : ~validateConstraint(Constraints[i], State).satisfied
  /\ \A i \in 1..Len(validationResults) : validationResults[i].satisfied

\* a cell of a slot the answer lists is empty, or holds a digit other than
\* the answer's digit at that position
GridDeviates ==
  /\ Has(puzzle, "answer")
  /\ \E k \in 1..Len(puzzle.answer) : \E s \in 1..Len(puzzle.slots) :
       /\ puzzle.slots[s].id = puzzle.answer[k].slotId
       /\ \E j \in 1..Len(puzzle.slots[s].cells) :
            \/ EmptyCell(puzzle.slots[s].cells[j])
            \/ /\ j =< Len(puzzle.answer[k].expectedDigits)
               /\ grid[puzzle.slots[s].cells[j]] # puzzle.answer[k].expectedDigits[j]

\* the same puzzle with no answer declared
WithoutAnswer(p) == [f \in DOMAIN p \ {"answer"} |-> p[f]]

\* C2: when the puzzle declares an answer and a cell of a listed slot is
\* empty or differs from the answer digit, validateConstraints returns the
\* verdicts of per-constraint evaluation: the list the same puzzle without
\* an answer gets.
C2_BypassFallThrough ==
  (Validated /\ GridDeviates) =>
    /\ validationResults =
         [i \in 1..Len(Constraints) |-> validateConstraint(Constraints[i], State)]
    /\ validationResults =
         validateConstraints([puzzle |-> WithoutAnswer(puzzle), grid |-> grid])
    /\ \A i \in 1..Len(validationResults) : PerConstraint(i)

\* one slot of the answer is matched, a single cell of the other deviates,
\* and the verdicts are out
C2_Witness ==
  /\ Validated /\ GridDeviates
  /\ puzzle.id = "answer"
  /\ grid["0,1"] = 1 /\ grid["1,1"] = 2 /\ grid["2,1"] = 0 /\ grid["1,0"] = 1
  /\ Len(validationResults) = 2

(***************************************************************************)
(* Slot ids no slot has                                                    *)
(***************************************************************************)
\* the constraint names, in slot, slotA, slotB or resultSlot, an id that no
\* slot of the puzzle has
NamesMissingSlot(c) ==
  \E f \in {"slot", "slotA", "slotB", "resultSlot"} :
    Has(c, f) /\ \A s \in 1..Len(puzzle.slots) : puzzle.slots[s].id # c[f]

\* C3: a constraint naming a slot id absent from the puzzle's slot list is
\* reported satisfied=false with message 'Slot not found' for every grid,
\* also in puzzles that declare a direct answer.
C3_MissingSlotNeverSatisfied ==
  Validated =>
    \A i \in 1..Len(Constraints) :
      NamesMissingSlot(Constraints[i]) =>
        /\ ~validationResults[i].satisfied
        /\ validationResults[i].message.text = "Slot not found"

(***************************************************************************)
(* Shape of the verdict list, solved flag                                  *)
(***************************************************************************)
\* C4: validateConstraints returns one verdict per declared constraint, in
\* declaration order: verdict i carries the id and the description of
\* constraint i, on the bypass path and on the per-constraint path.
C4_OneVerdictPerConstraint ==
  Validated =>
    /\ Len(validationResults) = Len(Constraints)
    /\ \A i \in 1..Len(Constraints) :
         /\ validationResults[i].constraintId = Constraints[i].id
         /\ validationResults[i].description = Constraints[i].description

\* five constraints handled by four validators, verdicts out
C4_Witness ==
  /\ Validated
  /\ Len(Constraints) = 5
  /\ Len(validationResults) = 5
  /\ \A i \in 1..5 : PerConstraint(i)

\* C5: isPuzzleSolved(verdicts) is true iff every verdict is satisfied: true
\* for the empty list, false for a list with one verdict not satisfied.
C5_SolvedIffAllSatisfied ==
  (pc = "solved") =>
    /\ solved <=> \A i \in 1..Len(validationResults) : validationResults[i].satisfied
    /\ (Len(validationResults) = 0 => solved)
    /\ (\E i \in 1..Len(validationResults) : ~validationResults[i].satisfied) => ~solved

\* a puzzle with no constraint: every cell empty, and solved
C5_Witness ==
  /\ pc = "solved"
  /\ Len(Constraints) = 0
  /\ validationResults = <<>>
  /\ \A c \in DOMAIN grid : grid[c] = Null
  /\ solved

(***************************************************************************)
(* Slot-targeted constraints, evaluated one by one                         *)
(***************************************************************************)
\* within-slot placeValueDifference: no slotA/slotB pair
SlotTargeted(c) ==
  \/ c.type \in {"greatestNumber", "smallestNumber", "noRepeatWithinSlot",
                 "placeValueSumEquals"}
  \/ /\ c.type = "placeValueDifference"
     /\ ~(Has(c, "slotA") /\ Has(c, "slotB"))

\* the verdicts whose message starts with the number the slot forms
NamesCurrentNumber(v) ==
  v.message.text \in {"is the greatest", "is not the greatest",
                      "is the smallest", "is not the smallest"}

\* C6: for a slot-targeted constraint whose slot exists, per-constraint
\* evaluation yields satisfied=false with message 'Incomplete' iff at least
\* one cell of the slot is null or absent from the grid map; when every cell
\* is filled the digits evaluated are the cells' digits in the slot's order.
C6_IncompleteIffEmptyCell ==
  \A i \in 1..Len(validationResults) :
    (PerConstraint(i) /\ SlotTargeted(Constraints[i]) /\ SlotExists(Constraints[i])) =>
      LET slot == TargetSlot(Constraints[i])
          v    == validationResults[i]
      IN  /\ (v.message.text = "Incomplete") <=> ~FullSlot(slot)
          /\ (v.message.text = "Incomplete") => ~v.satisfied
          /\ (FullSlot(slot) /\ NamesCurrentNumber(v)) =>
               v.message.args[1] = NumberOf(CellDigits(slot))

\* every cell of the grid map is filled, one cell of the slot is no key of
\* the grid map, and the verdict is Incomplete
C6_Witness ==
  /\ Validated
  /\ \A c \in DOMAIN grid : grid[c] # Null
  /\ \E i \in 1..Len(Constraints) :
       /\ SlotTargeted(Constraints[i]) /\ SlotExists(Constraints[i])
       /\ \E k \in 1..Len(TargetSlot(Constraints[i]).cells) :
            TargetSlot(Constraints[i]).cells[k] \notin DOMAIN grid
       /\ validationResults[i].message.text = "Incomplete"
       /\ ~validationResults[i].satisfied

NonIncreasing(d) == \A j, k \in 1..Len(d) : j < k => d[j] >= d[k]

\* the greatest number an arrangement of the digits of d writes
GreatestOf(d) ==
  CHOOSE n \in {NumberOf(a) : a \in Arrangements(d)} :
    \A a \in Arrangements(d) : NumberOf(a) =< n

\* the target a greatest/smallest verdict compares the slot's number with
TargetOf(v) ==
  IF v.satisfied THEN v.message.args[1] ELSE v.message.args[2]

PlainGreatest(c) == c.type = "greatestNumber" /\ ~Flagged(c, "noRepeat")

NoLeadingZero(d) == {a \in Arrangements(d) : a[1] # 0}

\* the least number an arrangement of d without a leading 0 writes; 0 when
\* every digit is 0
SmallestOf(d) ==
  IF NoLeadingZero(d) = {} THEN 0
  ELSE CHOOSE n \in {NumberOf(a) : a \in NoLeadingZero(d)} :
         \A a \in NoLeadingZero(d) : n =< NumberOf(a)

\* ascending, the leading 0 exchanged with the first nonzero digit
IsSmallestArrangement(a) ==
  IF \A k \in 1..Len(a) : a[k] = 0 THEN TRUE
  ELSE /\ a[1] # 0
       /\ \A k \in 2..Len(a) : a[k] # 0 => a[1] =< a[k]
       /\ \A j, k \in 2..Len(a) : j < k => a[j] =< a[k]

PlainSmallest(c) ==
  c.type = "smallestNumber" /\ ~Flagged(c, "noRepeat") /\ ~Has(c, "sumOfDigits")

NoRepeatCheck(c) ==
  \/ c.type = "noRepeatWithinSlot"
  \/ c.type \in {"greatestNumber", "smallestNumber"} /\ Flagged(c, "noRepeat")

\* C9: on a full slot with a repeated digit, noRepeatWithinSlot and
\* greatestNumber/smallestNumber with noRepeat=true are reported not
\* satisfied, for every arrangement, the greatest (smallest) included;
\* noRepeatWithinSlot is satisfied exactly when the digits are distinct.
C9_DuplicatesFailNoRepeat ==
  \A i \in 1..Len(validationResults) :
    (/\ PerConstraint(i) /\ NoRepeatCheck(Constraints[i])
     /\ SlotExists(Constraints[i]) /\ FullSlot(TargetSlot(Constraints[i]))) =>
      LET d == CellDigits(TargetSlot(Constraints[i]))
          v == validationResults[i]
      IN  /\ ~Distinct(d) => ~v.satisfied
          /\ Constraints[i].type = "noRepeatWithinSlot" => (v.satisfied <=> Distinct(d))

\* a repeated digit in the greatest arrangement: greatestNumber with
\* noRepeat rejects it, and so does noRepeatWithinSlot on a slot whose equal
\* digits are not neighbours
C9_Witness ==
  /\ Validated
  /\ puzzle.id = "noRepeat"
  /\ CellDigits(Number1) = <<2, 1, 2>>
  /\ ~validationResults[1].satisfied
  /\ \E i \in 1..Len(Constraints) :
       /\ PerConstraint(i) /\ Constraints[i].type = "greatestNumber"
       /\ Flagged(Constraints[i], "noRepeat")
       /\ ~validationResults[i].satisfied

SumModified(c) == c.type = "smallestNumber" /\ Has(c, "sumOfDigits")

RECURSIVE DigitSum(_, _)
DigitSum(d, k) == IF k > Len(d) THEN 0 ELSE d[k] + DigitSum(d, k + 1)

\* C10: smallestNumber with sumOfDigits on a full slot: a digit sum other
\* than the declared one is reported not satisfied with the sum message, in
\* the smallest arrangement too; with the declared sum the verdict is the
\* one of the noRepeat check (if flagged), then of the plain smallest check.
C10_SumOfDigitsFirst ==
  \A i \in 1..Len(validationResults) :
    (/\ PerConstraint(i) /\ SumModified(Constraints[i])
     /\ SlotExists(Constraints[i]) /\ FullSlot(TargetSlot(Constraints[i]))) =>
      LET c == Constraints[i]
          d == CellDigits(TargetSlot(c))
          v == validationResults[i]
      IN  IF DigitSum(d, 1) # c.sumOfDigits
          THEN /\ ~v.satisfied
               /\ v.message = Msg("Sum of digits is, not", <<DigitSum(d, 1), c.sumOfDigits>>)
          ELSE IF Flagged(c, "noRepeat") /\ ~Distinct(d)
          THEN /\ ~v.satisfied
               /\ v.message.text = "Cannot repeat digits"
          ELSE /\ NamesCurrentNumber(v)
               /\ v.satisfied <=> NumberOf(d) = SmallestOf(d)
               /\ TargetOf(v) = SmallestOf(d)

\* the smallest arrangement of digits whose sum is not the declared one,
\* rejected with the sum message
C10_Witness ==
  /\ Validated
  /\ \E i \in 1..Len(Constraints) :
       /\ PerConstraint(i) /\ SumModified(Constraints[i])
       /\ SlotExists(Constraints[i]) /\ FullSlot(TargetSlot(Constraints[i]))
       /\ CellDigits(TargetSlot(Constraints[i])) = <<1, 0, 0>>
       /\ Constraints[i].sumOfDigits = 3
       /\ ~validationResults[i].satisfied
       /\ validationResults[i].message = Msg("Sum of digits is, not", <<1, 3>>)

(***************************************************************************)
(* noRepeatAcrossSlots                                                     *)
(***************************************************************************)
\* slot s is the first, in declaration order, that has an empty cell or a
\* repeated digit
FirstOffending(s) ==
  /\ ~FullSlot(puzzle.slots[s]) \/ ~Distinct(CellDigits(puzzle.slots[s]))
  /\ \A t \in 1..(s - 1) :
       FullSlot(puzzle.slots[t]) /\ Distinct(CellDigits(puzzle.slots[t]))

\* two different cells of two different slots hold the same digit
DigitInTwoSlots ==
  \E s, t \in 1..Len(puzzle.slots) :
    /\ s # t
    /\ \E j \in 1..Len(puzzle.slots[s].cells) : \E k \in 1..Len(puzzle.slots[t].cells) :
         /\ puzzle.slots[s].cells[j] # puzzle.slots[t].cells[k]
         /\ ~EmptyCell(puzzle.slots[s].cells[j])
         /\ ~EmptyCell(puzzle.slots[t].cells[k])
         /\ grid[puzzle.slots[s].cells[j]] = grid[puzzle.slots[t].cells[k]]

RECURSIVE RelatedDigits(_, _)
RelatedDigits(c, k) ==
  IF k > Len(c.relatedSlots) THEN <<>>
  ELSE LET slot == puzzle.slots[CHOOSE s \in 1..Len(puzzle.slots) :
                                  puzzle.slots[s].id = c.relatedSlots[k]]
       IN  [j \in 1..Len(slot.cells) |-> GridGet(grid, slot.cells[j])]
             \o RelatedDigits(c, k + 1)

\* C12: a noRepeatAcrossSlots constraint that declares relatedSlots is
\* satisfied iff the pooled digits of the listed slots have no repeat; the
\* slots it does not list do not affect the verdict.
C12_RelatedSlotsPooled ==
  \A i \in 1..Len(validationResults) :
    (/\ PerConstraint(i) /\ Constraints[i].type = "noRepeatAcrossSlots"
     /\ Has(Constraints[i], "relatedSlots")) =>
      LET pooled == RelatedDigits(Constraints[i], 1)
      IN  validationResults[i].satisfied <=> (~SomeNull(pooled) /\ Distinct(pooled))

(***************************************************************************)
(* Place values                                                            *)
(***************************************************************************)
\* the rank of a place counted from the last cell: ones 1 .. tenThousands 5,
\* 0 for a name that is no place
PlaceRank(place) ==
  CASE place = "ones"         -> 1
    [] place = "tens"         -> 2
    [] place = "hundreds"     -> 3
    [] place = "thousands"    -> 4
    [] place = "tenThousands" -> 5
    [] OTHER                  -> 0

\* the slot has a cell at the place
Resolvable(slot, place) == PlaceRank(place) \in 1..Len(slot.cells)

\* the digit a full slot holds at a place it has
DigitAt(slot, place) == grid[slot.cells[Len(slot.cells) - PlaceRank(place) + 1]]

PlaceWeight(place) == Pow10(PlaceRank(place) - 1)

\* the sum of digit times weight over the places from index k on
RECURSIVE PlaceValueSum(_, _, _)
PlaceValueSum(slot, places, k) ==
  IF k > Len(places) THEN 0
  ELSE DigitAt(slot, places[k]) * PlaceWeight(places[k])
         + PlaceValueSum(slot, places, k + 1)

\* constraint i is a well-configured placeValueSumEquals on a full slot,
\* evaluated on its own
SumEqualsOnFullSlot(i) ==
  /\ PerConstraint(i)
  /\ Constraints[i].type = "placeValueSumEquals"
  /\ Has(Constraints[i], "places") /\ Has(Constraints[i], "sum")
  /\ SlotExists(Constraints[i]) /\ FullSlot(TargetSlot(Constraints[i]))

\* C13: placeValueSumEquals on a fully filled slot is satisfied if and only
\* if every declared place is a cell of the slot, counted from the last cell
\* (ones = last cell), and the sum over the declared places of the digit at
\* the place times the place weight (1, 10, 100, 1000, 10000) equals the
\* declared sum.
C13_PlaceValueSumEquals ==
  \A i \in 1..Len(validationResults) :
    SumEqualsOnFullSlot(i) =>
      LET c    == Constraints[i]
          slot == TargetSlot(c)
      IN  validationResults[i].satisfied <=>
            /\ \A k \in 1..Len(c.places) : Resolvable(slot, c.places[k])
            /\ PlaceValueSum(slot, c.places, 1) = c.sum

\* places [tens, ones] with sum 21 on a slot holding tens 2, ones 1 and
\* another digit in its first cell: satisfied
C13_Witness ==
  \E i \in 1..Len(validationResults) :
    /\ SumEqualsOnFullSlot(i)
    /\ Constraints[i].places = <<"tens", "ones">>
    /\ Constraints[i].sum = 21
    /\ DigitAt(TargetSlot(Constraints[i]), "tens") = 2
    /\ DigitAt(TargetSlot(Constraints[i]), "ones") = 1
    /\ grid[TargetSlot(Constraints[i]).cells[1]] = 3
    /\ validationResults[i].satisfied

\* a place-value constraint i of each shape, well configured, evaluated on
\* its own with the slots it names present and full
WithinSlotDifference(i) ==
  /\ PerConstraint(i)
  /\ Constraints[i].type = "placeValueDifference"
  /\ ~(Truthy(Constraints[i], "slotA") /\ Truthy(Constraints[i], "slotB"))
  /\ Truthy(Constraints[i], "placeA") /\ Truthy(Constraints[i], "placeB")
  /\ Has(Constraints[i], "difference")
  /\ SlotExists(Constraints[i]) /\ FullSlot(TargetSlot(Constraints[i]))

NamedSlotExists(id) == \E s \in 1..Len(puzzle.slots) : puzzle.slots[s].id = id

NamedSlot(id) == puzzle.slots[CHOOSE s \in 1..Len(puzzle.slots) : puzzle.slots[s].id = id]

BetweenSlotsConfigured(i) ==
  /\ PerConstraint(i)
  /\ Constraints[i].type = "placeValueDifference"
  /\ Truthy(Constraints[i], "slotA") /\ Truthy(Constraints[i], "slotB")
  /\ Truthy(Constraints[i], "place") /\ Has(Constraints[i], "difference")
  /\ NamedSlotExists(Constraints[i].slotA) /\ NamedSlotExists(Constraints[i].slotB)

BetweenSlotsDifference(i) ==
  /\ BetweenSlotsConfigured(i)
  /\ FullSlot(NamedSlot(Constraints[i].slotA))
  /\ FullSlot(NamedSlot(Constraints[i].slotB))

\* the messages of a wrong value
WrongValueTexts == {"Sum is, not", "Difference is, not"}

\* the first declared place of a sum-equals constraint the slot lacks
FirstMissingPlace(slot, places, k) ==
  /\ ~Resolvable(slot, places[k])
  /\ \A j \in 1..(k - 1) : Resolvable(slot, places[j])

\* C14: a place-value constraint (sum-equals, difference within a slot,
\* difference between slots) naming a place the filled slot is too short to
\* hold, or a name that is no place, is not satisfied and carries a
\* place-not-found message, never the wrong-value message.
C14_PlaceNotFound ==
  \A i \in 1..Len(validationResults) :
    LET c == Constraints[i]
        v == validationResults[i]
    IN  /\ SumEqualsOnFullSlot(i) =>
             \A k \in 1..Len(c.places) :
               FirstMissingPlace(TargetSlot(c), c.places, k) =>
                 /\ ~v.satisfied
                 /\ v.message.text = "Place " \o c.places[k] \o " not found"
                 /\ v.message.text \notin WrongValueTexts
        /\ (/\ WithinSlotDifference(i)
            /\ (~Resolvable(TargetSlot(c), c.placeA) \/ ~Resolvable(TargetSlot(c), c.placeB))) =>
             /\ ~v.satisfied
             /\ v.message.text = "Place not found"
             /\ v.message.text \notin WrongValueTexts
        /\ (/\ BetweenSlotsDifference(i)
            /\ (~Resolvable(NamedSlot(c.slotA), c.place) \/ ~Resolvable(NamedSlot(c.slotB), c.place))) =>
             /\ ~v.satisfied
             /\ v.message.text = "Place " \o c.place \o " not found"
             /\ v.message.text \notin WrongValueTexts

\* one grid on which a sum-equals constraint names a place beyond the slot
\* after a place whose digit alone equals the sum, and the two difference
\* shapes each name a place that is no place
C14_Witness ==
  \E i, j, k \in 1..Len(validationResults) :
    /\ SumEqualsOnFullSlot(i)
    /\ Len(Constraints[i].places) = 2
    /\ FirstMissingPlace(TargetSlot(Constraints[i]), Constraints[i].places, 2)
    /\ PlaceRank(Constraints[i].places[2]) > Len(TargetSlot(Constraints[i]).cells)
    /\ DigitAt(TargetSlot(Constraints[i]), Constraints[i].places[1])
         * PlaceWeight(Constraints[i].places[1]) = Constraints[i].sum
    /\ WithinSlotDifference(j)
    /\ PlaceRank(Constraints[j].placeB) = 0
    /\ BetweenSlotsDifference(k)
    /\ PlaceRank(Constraints[k].place) = 0
    /\ validationResults[i].message.text = "Place thousands not found"
    /\ validationResults[j].message.text = "Place not found"
    /\ validationResults[k].message.text = "Place unit not found"

\* how far apart two digits are
Distance(a, b) == IF a >= b THEN a - b ELSE b - a

\* the constraint with placeA and placeB exchanged
SwapPlaces(c) == [c EXCEPT !.placeA = c.placeB, !.placeB = c.placeA]

\* C15: within-slot placeValueDifference on a fully filled slot is satisfied
\* if and only if the slot has both places and the absolute difference of
\* the digits at placeA and placeB equals the declared difference; the
\* verdict is the same with placeA and placeB exchanged, and a negative
\* declared difference is never satisfied.
C15_WithinSlotAbsoluteDifference ==
  \A i \in 1..Len(validationResults) :
    WithinSlotDifference(i) =>
      LET c    == Constraints[i]
          slot == TargetSlot(c)
          v    == validationResults[i]
      IN  /\ v.satisfied <=>
               /\ Resolvable(slot, c.placeA) /\ Resolvable(slot, c.placeB)
               /\ Distance(DigitAt(slot, c.placeA), DigitAt(slot, c.placeB)) = c.difference
          /\ validateConstraint(SwapPlaces(c), State) = v
          /\ c.difference < 0 => ~v.satisfied

\* a slot whose digit at placeA is below the digit at placeB by exactly the
\* declared difference: satisfied
C15_Witness ==
  \E i \in 1..Len(validationResults) :
    /\ WithinSlotDifference(i)
    /\ Constraints[i].placeA # Constraints[i].placeB
    /\ Resolvable(TargetSlot(Constraints[i]), Constraints[i].placeA)
    /\ Resolvable(TargetSlot(Constraints[i]), Constraints[i].placeB)
    /\ DigitAt(TargetSlot(Constraints[i]), Constraints[i].placeA)
         < DigitAt(TargetSlot(Constraints[i]), Constraints[i].placeB)
    /\ validationResults[i].satisfied
    /\ \E j \in 1..Len(validationResults) :
         /\ WithinSlotDifference(j)
         /\ Constraints[j].difference < 0
         /\ ~validationResults[j].satisfied

\* C16: between-slots placeValueDifference with both slots fully filled is
\* satisfied if and only if both slots have the place and the digit at the
\* place in slotA minus the digit at the place in slotB equals the declared
\* difference, signed; with an empty cell in either slot the verdict is not
\* satisfied with message 'Incomplete'.
C16_BetweenSlotsSignedDifference ==
  \A i \in 1..Len(validationResults) :
    BetweenSlotsConfigured(i) =>
      LET c == Constraints[i]
          a == NamedSlot(c.slotA)
          b == NamedSlot(c.slotB)
          v == validationResults[i]
      IN  IF FullSlot(a) /\ FullSlot(b)
          THEN v.satisfied <=>
                 /\ Resolvable(a, c.place) /\ Resolvable(b, c.place)
                 /\ DigitAt(a, c.place) - DigitAt(b, c.place) = c.difference
          ELSE ~v.satisfied /\ v.message.text = "Incomplete"

\* a negative declared difference met by a smaller digit in slotA, while the
\* constraint with the slots exchanged and the opposite difference is met too
C16_Witness ==
  \E i, j \in 1..Len(validationResults) :
    /\ BetweenSlotsDifference(i)
    /\ Constraints[i].difference < 0
    /\ validationResults[i].satisfied
    /\ BetweenSlotsDifference(j)
    /\ Constraints[j].slotA = Constraints[i].slotB
    /\ Constraints[j].slotB = Constraints[i].slotA
    /\ Constraints[j].difference = 0 - Constraints[i].difference
    /\ validationResults[j].satisfied

(***************************************************************************)
(* Slot arithmetic                                                         *)
(***************************************************************************)
\* constraint i is a slotDifferenceEqualsSlot naming three slots of the
\* puzzle, evaluated on its own
SlotDifferenceConfigured(i) ==
  /\ PerConstraint(i)
  /\ Constraints[i].type = "slotDifferenceEqualsSlot"
  /\ Truthy(Constraints[i], "slotA") /\ Truthy(Constraints[i], "slotB")
  /\ Truthy(Constraints[i], "resultSlot")
  /\ NamedSlotExists(Constraints[i].slotA) /\ NamedSlotExists(Constraints[i].slotB)
  /\ NamedSlotExists(Constraints[i].resultSlot)

\* the base-10 number a full slot writes, leading zeros allowed
SlotValue(slot) == NumberOf(CellDigits(slot))

\* C17: slotDifferenceEqualsSlot with slotA, slotB and resultSlot fully
\* filled is satisfied if and only if value(slotA) - value(slotB) =
\* value(resultSlot), each value the base-10 number of the slot's digits in
\* order; with an empty cell in any of the three the verdict is not satisfied
\* with message 'Incomplete'.
C17_SlotDifferenceEqualsSlot ==
  \A i \in 1..Len(validationResults) :
    SlotDifferenceConfigured(i) =>
      LET c == Constraints[i]
          a == NamedSlot(c.slotA)
          b == NamedSlot(c.slotB)
          r == NamedSlot(c.resultSlot)
          v == validationResults[i]
      IN  IF FullSlot(a) /\ FullSlot(b) /\ FullSlot(r)
          THEN v.satisfied <=> (SlotValue(a) - SlotValue(b) = SlotValue(r))
          ELSE ~v.satisfied /\ v.message.text = "Incomplete"

\* slotA written with a leading zero, a positive slotB, and the difference
\* in resultSlot: satisfied
C17_Witness ==
  \E i \in 1..Len(validationResults) :
    /\ SlotDifferenceConfigured(i)
    /\ FullSlot(NamedSlot(Constraints[i].slotA))
    /\ FullSlot(NamedSlot(Constraints[i].slotB))
    /\ FullSlot(NamedSlot(Constraints[i].resultSlot))
    /\ Len(NamedSlot(Constraints[i].slotA).cells) = 2
    /\ grid[NamedSlot(Constraints[i].slotA).cells[1]] = 0
    /\ SlotValue(NamedSlot(Constraints[i].slotB)) > 0
    /\ SlotValue(NamedSlot(Constraints[i].resultSlot)) > 0
    /\ validationResults[i].satisfied

(***************************************************************************)
(* Colored cells                                                           *)
(***************************************************************************)
\* constraint i is a cellDigitRestriction with a color, evaluated on its own
ColorRestriction(i) ==
  /\ PerConstraint(i)
  /\ Constraints[i].type = "cellDigitRestriction"
  /\ Truthy(Constraints[i], "color")

\* the ids of the layout cells tagged with the color
CellsOfColor(color) ==
  {puzzle.layout.cells[k].id : k \in
     {n \in 1..Len(puzzle.layout.cells) :
        Has(puzzle.layout.cells[n], "color") /\ puzzle.layout.cells[n].color = color}}

\* the digit passes the checks the constraint declares
PassesRestriction(c, digit) ==
  /\ Has(c, "notAllowed") => \A k \in 1..Len(c.notAllowed) : c.notAllowed[k] # digit
  /\ Has(c, "allowedRange") => (c.allowedRange[1] <= digit /\ digit <= c.allowedRange[2])

\* C18: cellDigitRestriction for a color is satisfied if and only if every
\* layout cell of that color that holds a digit has the digit outside
\* notAllowed (when declared) and inside the inclusive allowedRange (when
\* declared); empty cells of the color and cells of other colors do not
\* count, and one offending cell fails the constraint.
C18_CellDigitRestriction ==
  \A i \in 1..Len(validationResults) :
    ColorRestriction(i) =>
      (validationResults[i].satisfied <=>
         \A cellId \in CellsOfColor(Constraints[i].color) :
           ~EmptyCell(cellId) => PassesRestriction(Constraints[i], grid[cellId]))

\* one cell of the color passes and another offends: not satisfied; on the
\* same grid a restriction whose only cell is empty, next to cells of other
\* colors holding a digit it forbids, is satisfied
C18_Witness ==
  \E i, j \in 1..Len(validationResults) :
    /\ ColorRestriction(i)
    /\ \E a, b \in CellsOfColor(Constraints[i].color) :
         /\ ~EmptyCell(a) /\ PassesRestriction(Constraints[i], grid[a])
         /\ ~EmptyCell(b) /\ ~PassesRestriction(Constraints[i], grid[b])
    /\ ~validationResults[i].satisfied
    /\ ColorRestriction(j)
    /\ CellsOfColor(Constraints[j].color) # {}
    /\ \A a \in CellsOfColor(Constraints[j].color) : EmptyCell(a)
    /\ \E b \in DOMAIN grid \ CellsOfColor(Constraints[j].color) :
         ~EmptyCell(b) /\ ~PassesRestriction(Constraints[j], grid[b])
    /\ validationResults[j].satisfied

(***************************************************************************)
(* Kinds without a validator, constraints without their fields             *)
(***************************************************************************)
\* the kinds the evaluator has a validator for
KindsWithValidator ==
  {"greatestNumber", "smallestNumber", "noRepeatWithinSlot", "noRepeatAcrossSlots",
   "placeValueSumEquals", "placeValueDifference", "slotDifferenceEqualsSlot",
   "cellDigitRestriction"}

InvalidConfiguration(c) ==
  \/ /\ c.type = "placeValueSumEquals"
     /\ (~Has(c, "places") \/ ~Has(c, "sum"))
  \/ /\ c.type = "placeValueDifference"
     /\ Truthy(c, "slotA") /\ Truthy(c, "slotB")
     /\ (~Truthy(c, "place") \/ ~Has(c, "difference"))
  \/ /\ c.type = "placeValueDifference"
     /\ ~(Truthy(c, "slotA") /\ Truthy(c, "slotB"))
     /\ (~Truthy(c, "placeA") \/ ~Truthy(c, "placeB") \/ ~Has(c, "difference"))
  \/ /\ c.type = "slotDifferenceEqualsSlot"
     /\ (~Truthy(c, "slotA") \/ ~Truthy(c, "slotB") \/ ~Truthy(c, "resultSlot"))
  \/ /\ c.type = "cellDigitRestriction"
     /\ ~Truthy(c, "color")

q3 ==
  [id          |-> "q3-condition-evaluation",
   layout      |-> [rows |-> 5, cols |-> 5,
                    cells |-> << [id |-> "0,2"], [id |-> "1,2"], [id |-> "2,2"],
                                 [id |-> "3,2"], [id |-> "4,2"], [id |-> "4,1"],
                                 [id |-> "4,3"], [id |-> "0,4"], [id |-> "1,4"],
                                 [id |-> "2,4"] >>],
   digits      |-> <<>>,
   mode        |-> "evaluation",
   slots       |-> << [id |-> "number1", label |-> "Number 1",
                       cells |-> <<"0,2", "1,2", "2,2", "3,2", "4,2">>,
                       prefilled |-> <<9, 8, 7, 6, 5>>],
                      [id |-> "number2", label |-> "Number 2",
                       cells |-> <<"0,4", "1,4", "2,4">>,
                       prefilled |-> <<1, 0, 0>>],
                      [id |-> "number3", label |-> "Number 3",
                       cells |-> <<"4,1", "4,2", "4,3">>,
                       prefilled |-> <<5, 5, 0>>] >>,
   constraints |-> << [id |-> "c1", type |-> "greatestNumber", slot |-> "number1",
                       description |-> "Make the greatest 5-digit number without repeating digits"],
                      [id |-> "c2", type |-> "greatestNumber", slot |-> "number3",
                       description |-> "Make the greatest 3-digit number without repeating digits"],
                      [id |-> "c3", type |-> "smallestNumber", slot |-> "number2",
                       description |-> "Make the smallest 3-digit number"] >>]

q7 ==
  [id          |-> "q7-sum-and-place-value",
   layout      |-> [rows |-> 6, cols |-> 3,
                    cells |-> << [id |-> "0,1"], [id |-> "1,1"], [id |-> "2,1"],
                                 [id |-> "3,1"], [id |-> "4,1"], [id |-> "2,0"],
                                 [id |-> "2,2"] >>],
   digits      |-> <<1, 2, 3, 3, 4, 5, 5>>,
   slots       |-> << [id |-> "number1", label |-> "Number 1",
                       cells |-> <<"0,1", "1,1", "2,1", "3,1", "4,1">>],
                      [id |-> "number2", label |-> "Number 2",
                       cells |-> <<"2,0", "2,1", "2,2">>] >>,
   constraints |-> << [id |-> "c1", type |-> "smallestNumber", slot |-> "number1",
                       sumOfDigits |-> 15,
                       description |-> "Make the smallest 5-digit number where the sum of all digits is 15"],
                      [id |-> "c2", type |-> "placeValueDifference", slotA |-> "number1",
                       slotB |-> "number2", place |-> "hundreds", difference |-> 1,
                       description |-> "Hundreds place of 5-digit number is 100 more than hundreds place of 3-digit number"] >>,
   answer      |-> << Entry("number1", <<1, 2, 4, 3, 5>>),
                      Entry("number2", <<3, 4, 5>>) >>]

q8 ==
  [id          |-> "q8-colored-cells",
   layout      |-> [rows |-> 6, cols |-> 4,
                    cells |-> << [id |-> "0,0", color |-> "green"],
                                 [id |-> "1,0", color |-> "yellow"],
                                 [id |-> "2,0", color |-> "green"],
                                 [id |-> "3,0", color |-> "yellow"],
                                 [id |-> "4,0", color |-> "green"],
                                 [id |-> "1,1", color |-> "green"],
                                 [id |-> "1,2", color |-> "yellow"],
                                 [id |-> "1,3", color |-> "green"] >>],
   digits      |-> <<9, 9, 9, 6, 6, 2, 1, 0>>,
   slots       |-> << [id |-> "number1", label |-> "Number 1",
                       cells |-> <<"0,0", "1,0", "2,0", "3,0", "4,0">>],
                      [id |-> "number2", label |-> "Number 2",
                       cells |-> <<"1,0", "1,1", "1,2", "1,3">>] >>,
   constraints |-> << [id |-> "c1", type |-> "cellDigitRestriction", color |-> "green",
                       notAllowed |-> <<9>>,
                       description |-> "Do not place 9 in any green cell"],
                      [id |-> "c2", type |-> "cellDigitRestriction", color |-> "yellow",
                       allowedRange |-> <<6, 9>>,
                       description |-> "Yellow cells should only have digits greater than 5"],
                      [id |-> "c3", type |-> "greatestNumber", slot |-> "number1",
                       description |-> "Make the greatest 5-digit number"],
                      [id |-> "c4", type |-> "placeValueDifference", slot |-> "number1",
                       placeA |-> "thousands", placeB |-> "hundreds", difference |-> 3,
                       description |-> "Difference between thousands and hundreds place should be 3"] >>,
   answer      |-> << Entry("number1", <<2, 9, 6, 9, 1>>),
                      Entry("number2", <<9, 6, 9, 0>>) >>]

(***************************************************************************)
(* Bounds of the game: how far a run is followed.                          *)
(***************************************************************************)
\* solved submissions counted in one score
MaxScore == 2

\* failed submissions counted in one health
MaxLost == 4

\* timers of one kind pending at once, and Next buttons on the page
MaxPending == 2

(***************************************************************************)
(* Puzzle lists main.ts is run on: two-puzzle lists of small puzzles and   *)
(* of the shipped q3.                                                      *)
(***************************************************************************)
duo ==
  [id          |-> "duo",
   layout      |-> [rows |-> 1, cols |-> 2, cells |-> << [id |-> "0,0"], [id |-> "0,1"] >>],
   digits      |-> <<1, 2>>,
   slots       |-> << [id |-> "number1", label |-> "Number 1", cells |-> <<"0,0", "0,1">>] >>,
   constraints |-> << [id |-> "c1", type |-> "greatestNumber", slot |-> "number1",
                       description |-> "Make the greatest 2-digit number"] >>]

twins ==
  [id          |-> "twins",
   layout      |-> [rows |-> 1, cols |-> 3,
                    cells |-> << [id |-> "0,0"], [id |-> "0,1"], [id |-> "0,2"] >>],
   digits      |-> <<1, 0, 1>>,
   slots       |-> << [id |-> "number1", label |-> "Number 1",
                       cells |-> <<"0,0", "0,1", "0,2">>] >>,
   constraints |-> << [id |-> "c1", type |-> "smallestNumber", slot |-> "number1",
                       description |-> "Make the smallest 3-digit number"] >>]

PuzzleLists == { <<duo, twins>>, <<duo, q3>> }

(***************************************************************************)
(* Game.ts                                                                 *)
(***************************************************************************)
\* initializeState(puzzle, initialScore, initialHealth): the GameState of a
\* new Game, as the values of the primed variables
initializeState(p, initialScore, initialHealth) ==
  /\ puzzle' = p
  /\ grid' = [cellId \in CellIds(p) |-> Null]
  /\ availableDigits' = p.digits
  /\ selectedDigit' = Null
  /\ selectedDigitIndex' = Null
  /\ isSubmitted' = FALSE
  /\ validationResults' = <<>>
  /\ health' = initialHealth
  /\ score' = initialScore

\* what no handler of Game.ts writes
GameFrame ==
  UNCHANGED <<solved, pc, puzzles, currentPuzzleIndex, globalScore, globalHealth,
              screen, nextButtons>>

handleDigitClick(digit, index) ==
  /\ IF selectedDigitIndex = index
     THEN selectedDigit' = Null /\ selectedDigitIndex' = Null
     ELSE selectedDigit' = digit /\ selectedDigitIndex' = index
  /\ validationCalls' = 0
  /\ GameFrame
  /\ UNCHANGED <<puzzle, grid, availableDigits, isSubmitted, validationResults,
                 health, score, completionTimers, gameOverTimers>>

handleCellClick(cellId) ==
  LET currentValue == GridGet(grid, cellId)
  IN  /\ IF currentValue # Null
         THEN /\ grid' = [grid EXCEPT ![cellId] = Null]
              /\ availableDigits' = Append(availableDigits, currentValue)
              /\ selectedDigit' = Null
              /\ selectedDigitIndex' = Null
              /\ isSubmitted' = FALSE
              /\ validationResults' = <<>>
         ELSE IF selectedDigit # Null /\ selectedDigitIndex # Null
         THEN /\ grid' = [grid EXCEPT ![cellId] = selectedDigit]
              /\ availableDigits' = RemoveAt(availableDigits, selectedDigitIndex)
              /\ selectedDigit' = Null
              /\ selectedDigitIndex' = Null
              /\ isSubmitted' = FALSE
              /\ validationResults' = <<>>
         ELSE UNCHANGED <<grid, availableDigits, selectedDigit, selectedDigitIndex,
                          isSubmitted, validationResults>>
      /\ validationCalls' = 0
      /\ GameFrame
      /\ UNCHANGED <<puzzle, health, score, completionTimers, gameOverTimers>>

\* handleSubmit without the check that all digits are placed
handleSubmit_noGuard ==
  LET results == validateConstraints(State)
  IN  /\ validationResults' = results
      /\ validationCalls' = 1
      /\ isSubmitted' = TRUE
      /\ IF isPuzzleSolved(results)
         THEN /\ score' = score + 1
              /\ completionTimers' = completionTimers + 1
              /\ UNCHANGED <<health, gameOverTimers>>
         ELSE /\ health' = health - 1
              /\ gameOverTimers' =
                   IF health - 1 <= 0 THEN gameOverTimers + 1 ELSE gameOverTimers
              /\ UNCHANGED <<score, completionTimers>>
      /\ GameFrame
      /\ UNCHANGED <<puzzle, grid, availableDigits, selectedDigit,
                     selectedDigitIndex>>

handleSubmit ==
  LET allPlaced == Len(availableDigits) = 0
      results   == validateConstraints(State)
  IN  IF ~allPlaced
      THEN /\ validationCalls' = 0
           /\ GameFrame
           /\ UNCHANGED <<puzzle, grid, availableDigits, selectedDigit,
                          selectedDigitIndex, isSubmitted, validationResults,
                          health, score, completionTimers, gameOverTimers>>
      ELSE /\ validationResults' = results
           /\ validationCalls' = 1
           /\ isSubmitted' = TRUE
           /\ IF isPuzzleSolved(results)
              THEN /\ score' = score + 1
                   /\ completionTimers' = completionTimers + 1
                   /\ UNCHANGED <<health, gameOverTimers>>
              ELSE /\ health' = health - 1
                   /\ gameOverTimers' =
                        IF health - 1 <= 0 THEN gameOverTimers + 1 ELSE gameOverTimers
                   /\ UNCHANGED <<score, completionTimers>>
           /\ GameFrame
           /\ UNCHANGED <<puzzle, grid, availableDigits, selectedDigit,
                          selectedDigitIndex>>

\* handleReset with the default score and health of initializeState
handleReset_defaults ==
  /\ initializeState(puzzle, 0, 3)
  /\ validationCalls' = 0
  /\ GameFrame
  /\ UNCHANGED <<completionTimers, gameOverTimers>>

handleReset ==
  /\ initializeState(puzzle, score, health)
  /\ validationCalls' = 0
  /\ GameFrame
  /\ UNCHANGED <<completionTimers, gameOverTimers>>

handleDragStart(digit, index) ==
  /\ selectedDigit' = digit
  /\ selectedDigitIndex' = index
  /\ validationCalls' = 0
  /\ GameFrame
  /\ UNCHANGED <<puzzle, grid, availableDigits, isSubmitted, validationResults,
                 health, score, completionTimers, gameOverTimers>>

\* handleDrop without the push of the digit the target cell held
handleDrop_noReturn(cellId, data) ==
  /\ IF data.source = "pool"
     THEN LET currentValue == GridGet(grid, cellId)
              returned     == availableDigits
          IN  /\ grid' = [grid EXCEPT ![cellId] = data.digit]
              /\ availableDigits' = IF Has(data, "index")
                                    THEN RemoveAt(returned, data.index)
                                    ELSE returned
              /\ selectedDigit' = Null
              /\ selectedDigitIndex' = Null
              /\ isSubmitted' = FALSE
              /\ validationResults' = <<>>
     ELSE IF data.source = "cell"
     THEN LET sourceCellId       == data.cellId
              currentTargetValue == GridGet(grid, cellId)
          IN  IF Truthy(data, "cellId") /\ sourceCellId # cellId
              THEN /\ grid' = [grid EXCEPT
                                 ![sourceCellId] = currentTargetValue,
                                 ![cellId]       = data.digit]
                   /\ isSubmitted' = FALSE
                   /\ validationResults' = <<>>
                   /\ UNCHANGED <<availableDigits, selectedDigit, selectedDigitIndex>>
              ELSE UNCHANGED <<grid, availableDigits, selectedDigit,
                               selectedDigitIndex, isSubmitted, validationResults>>
     ELSE UNCHANGED <<grid, availableDigits, selectedDigit, selectedDigitIndex,
                      isSubmitted, validationResults>>
  /\ validationCalls' = 0
  /\ GameFrame
  /\ UNCHANGED <<puzzle, health, score, completionTimers, gameOverTimers>>

\* data is the drag payload {digit, index, source: 'pool'} or
\* {digit, cellId, source: 'cell'}
handleDrop(cellId, data) ==
  /\ IF data.source = "pool"
     THEN LET currentValue == GridGet(grid, cellId)
              returned     == IF currentValue # Null
                              THEN Append(availableDigits, currentValue)
                              ELSE availableDigits
          IN  /\ grid' = [grid EXCEPT ![cellId] = data.digit]
              /\ availableDigits' = IF Has(data, "index")
                                    THEN RemoveAt(returned, data.index)
                                    ELSE returned
              /\ selectedDigit' = Null
              /\ selectedDigitIndex' = Null
              /\ isSubmitted' = FALSE
              /\ validationResults' = <<>>
     ELSE IF data.source = "cell"
     THEN LET sourceCellId       == data.cellId
              currentTargetValue == GridGet(grid, cellId)
          IN  IF Truthy(data, "cellId") /\ sourceCellId # cellId
              THEN /\ grid' = [grid EXCEPT
                                 ![sourceCellId] = currentTargetValue,
                                 ![cellId]       = data.digit]
                   /\ isSubmitted' = FALSE
                   /\ validationResults' = <<>>
                   /\ UNCHANGED <<availableDigits, selectedDigit, selectedDigitIndex>>
              ELSE UNCHANGED <<grid, availableDigits, selectedDigit,
                               selectedDigitIndex, isSubmitted, validationResults>>
     ELSE UNCHANGED <<grid, availableDigits, selectedDigit, selectedDigitIndex,
                      isSubmitted, validationResults>>
  /\ validationCalls' = 0
  /\ GameFrame
  /\ UNCHANGED <<puzzle, health, score, completionTimers, gameOverTimers>>

\* handleDropToPool that leaves isSubmitted and the verdicts as they are
handleDropToPool_keepVerdicts(data) ==
  /\ IF data.source = "cell" /\ Truthy(data, "cellId")
     THEN /\ grid' = [grid EXCEPT ![data.cellId] = Null]
          /\ availableDigits' = Append(availableDigits, data.digit)
          /\ UNCHANGED <<isSubmitted, validationResults>>
     ELSE UNCHANGED <<grid, availableDigits, isSubmitted, validationResults>>
  /\ validationCalls' = 0
  /\ GameFrame
  /\ UNCHANGED <<puzzle, selectedDigit, selectedDigitIndex, health, score,
                 completionTimers, gameOverTimers>>

handleDropToPool(data) ==
  /\ IF data.source = "cell" /\ Truthy(data, "cellId")
     THEN /\ grid' = [grid EXCEPT ![data.cellId] = Null]
          /\ availableDigits' = Append(availableDigits, data.digit)
          /\ isSubmitted' = FALSE
          /\ validationResults' = <<>>
     ELSE UNCHANGED <<grid, availableDigits, isSubmitted, validationResults>>
  /\ validationCalls' = 0
  /\ GameFrame
  /\ UNCHANGED <<puzzle, selectedDigit, selectedDigitIndex, health, score,
                 completionTimers, gameOverTimers>>

\* showGameOver(), run by the 1000 ms timer of handleSubmit: the container is
\* emptied and the game-over screen put in it
showGameOver ==
  /\ screen' = "gameOver"
  /\ nextButtons' = 0
  /\ validationCalls' = 0
  /\ UNCHANGED <<puzzle, grid, availableDigits, selectedDigit, selectedDigitIndex,
                 isSubmitted, validationResults, health, score, solved, pc, puzzles,
                 currentPuzzleIndex, globalScore, globalHealth, completionTimers>>

(***************************************************************************)
(* main.ts                                                                 *)
(***************************************************************************)
\* gameInstance = null: no GameState yet
NoGame ==
  [puzzle |-> [id |-> "", layout |-> [rows |-> 0, cols |-> 0, cells |-> <<>>],
               digits |-> <<>>, slots |-> <<>>, constraints |-> <<>>],
   grid   |-> [cellId \in {} |-> Null]]

\* showCompletionScreen(): the container is emptied and the completion
\* screen put in it; gameInstance stays the last Game
showCompletionScreen ==
  /\ screen' = "completion"
  /\ nextButtons' = 0
  /\ UNCHANGED <<puzzle, grid, availableDigits, selectedDigit, selectedDigitIndex,
                 isSubmitted, validationResults, health, score>>

\* loadPuzzle(index), index counted from 0: a new Game on puzzles[index]
\* with the saved score and health, or the completion screen
loadPuzzle(index) ==
  IF index >= Len(puzzles)
  THEN showCompletionScreen
  ELSE /\ initializeState(puzzles[index + 1], globalScore', globalHealth')
       /\ screen' = "game"
       /\ nextButtons' = 0

\* the click handler of the Start button, and of Play Again
StartOver ==
  /\ currentPuzzleIndex' = 0
  /\ globalScore' = 0
  /\ globalHealth' = 3
  /\ loadPuzzle(0)
  /\ validationCalls' = 0
  /\ UNCHANGED <<solved, pc, puzzles, completionTimers, gameOverTimers>>

\* the onComplete callback given to new Game, run by the 500 ms timer of
\* handleSubmit: score and health of gameInstance are saved, then
\* showNextButton()
onComplete ==
  /\ globalScore' = score
  /\ globalHealth' = health
  /\ nextButtons' = nextButtons + 1
  /\ validationCalls' = 0
  /\ UNCHANGED <<puzzle, grid, availableDigits, selectedDigit, selectedDigitIndex,
                 isSubmitted, validationResults, health, score, solved, pc, puzzles,
                 currentPuzzleIndex, screen, gameOverTimers>>

\* the click handler of a Next button
showNextButton ==
  /\ currentPuzzleIndex' = currentPuzzleIndex + 1
  /\ UNCHANGED <<globalScore, globalHealth>>
  /\ loadPuzzle(currentPuzzleIndex + 1)
  /\ validationCalls' = 0
  /\ UNCHANGED <<solved, pc, puzzles, completionTimers, gameOverTimers>>

\* window.location.reload() of the Restart button: the page as first loaded
Reload ==
  /\ puzzle' = NoGame.puzzle
  /\ grid' = NoGame.grid
  /\ validationResults' = <<>>
  /\ availableDigits' = <<>>
  /\ selectedDigit' = Null
  /\ selectedDigitIndex' = Null
  /\ isSubmitted' = FALSE
  /\ health' = 3
  /\ score' = 0
  /\ currentPuzzleIndex' = 0
  /\ globalScore' = 0
  /\ globalHealth' = 3
  /\ screen' = "landing"
  /\ nextButtons' = 0
  /\ completionTimers' = 0
  /\ gameOverTimers' = 0
  /\ validationCalls' = 0
  /\ UNCHANGED <<solved, pc, puzzles>>

(***************************************************************************)
(* The page: what the player can do on the screen shown, and the timers.   *)
(***************************************************************************)
GameInit ==
  /\ puzzles \in PuzzleLists
  /\ puzzle = NoGame.puzzle
  /\ grid = NoGame.grid
  /\ validationResults = <<>>
  /\ availableDigits = <<>>
  /\ selectedDigit = Null
  /\ selectedDigitIndex = Null
  /\ isSubmitted = FALSE
  /\ health = 3
  /\ score = 0
  /\ currentPuzzleIndex = 0
  /\ globalScore = 0
  /\ globalHealth = 3
  /\ screen = "landing"
  /\ nextButtons = 0
  /\ completionTimers = 0
  /\ gameOverTimers = 0
  /\ validationCalls = 0
  /\ solved = FALSE
  /\ pc = "game"

\* the cells that hold a digit
FilledCells == {cellId \in DOMAIN grid : grid[cellId] # Null}

ClickStart == screen = "landing" /\ StartOver

ClickPlayAgain == screen = "completion" /\ StartOver

ClickRestart == screen = "gameOver" /\ Reload

ClickNext == nextButtons > 0 /\ showNextButton

ClickDigit ==
  /\ screen = "game"
  /\ \E index \in 1..Len(availableDigits) :
       handleDigitClick(availableDigits[index], index)

ClickCell == screen = "game" /\ \E cellId \in DOMAIN grid : handleCellClick(cellId)

\* the run is followed while score, health and pending timers are in bounds
ClickSubmit ==
  /\ screen = "game"
  /\ score < MaxScore
  /\ health > 3 - MaxLost
  /\ completionTimers < MaxPending
  /\ gameOverTimers < MaxPending
  /\ handleSubmit

ClickReset == screen = "game" /\ handleReset

\* a digit of the pool dragged and let go outside the cells
DragDigit ==
  /\ screen = "game"
  /\ \E index \in 1..Len(availableDigits) :
       handleDragStart(availableDigits[index], index)

DropDigitOnCell ==
  /\ screen = "game"
  /\ \E index \in 1..Len(availableDigits) : \E cellId \in DOMAIN grid :
       handleDrop(cellId, [digit |-> availableDigits[index], index |-> index,
                           source |-> "pool"])

DropCellOnCell ==
  /\ screen = "game"
  /\ \E sourceCellId \in FilledCells : \E cellId \in DOMAIN grid :
       handleDrop(cellId, [digit |-> grid[sourceCellId], cellId |-> sourceCellId,
                           source |-> "cell"])

DropCellOnPool ==
  /\ screen = "game"
  /\ \E sourceCellId \in FilledCells :
       handleDropToPool([digit |-> grid[sourceCellId], cellId |-> sourceCellId,
                         source |-> "cell"])

CompletionTimer ==
  /\ completionTimers > 0
  /\ nextButtons < MaxPending
  /\ completionTimers' = completionTimers - 1
  /\ onComplete

GameOverTimer ==
  /\ gameOverTimers > 0
  /\ gameOverTimers' = gameOverTimers - 1
  /\ showGameOver

GameNext ==
  \/ ClickStart
  \/ ClickPlayAgain
  \/ ClickRestart
  \/ ClickNext
  \/ ClickDigit
  \/ ClickCell
  \/ ClickSubmit
  \/ ClickReset
  \/ DragDigit
  \/ DropDigitOnCell
  \/ DropCellOnCell
  \/ DropCellOnPool
  \/ CompletionTimer
  \/ GameOverTimer

GameSpec == GameInit /\ [][GameNext]_vars

(***************************************************************************)
(* Placement logic                                                         *)
(***************************************************************************)
\* how many times digit d occurs in a sequence, and in the cells of the grid
CountInSeq(seq, d) == Cardinality({i \in 1..Len(seq) : seq[i] = d})

CountInGrid(d) == Cardinality({cellId \in DOMAIN grid : grid[cellId] = d})

\* C22: after any sequence of digit selection, cell click, pool-to-cell drop,
\* cell-to-cell drop, cell-to-pool drop and reset, the digits held in grid
\* cells together with the digits in availableDigits are, as a multiset, the
\* puzzle's digit pool.
C22_DigitConservation ==
  \A d \in 0..9 :
    CountInGrid(d) + CountInSeq(availableDigits, d) = CountInSeq(puzzle.digits, d)

\* a pool with a repeated digit, partly placed: two cells hold the two 1s
\* and the pool holds what is left
C22_Witness ==
  /\ screen = "game"
  /\ CountInSeq(puzzle.digits, 1) = 2
  /\ CountInGrid(1) = 2
  /\ availableDigits = <<0>>
  /\ Cardinality(FilledCells) = 2

(***************************************************************************)
(* Health and score                                                        *)
(***************************************************************************)
\* every verdict the engine gives on the current grid is satisfied
AllSatisfiedNow ==
  LET results == validateConstraints(State)
  IN  \A i \in 1..Len(results) : results[i].satisfied

\* select, place, remove, drag, reset
PlacementAction ==
  \/ ClickDigit
  \/ ClickCell
  \/ DragDigit
  \/ DropDigitOnCell
  \/ DropCellOnCell
  \/ DropCellOnPool
  \/ ClickReset

\* C23: a submission with all digits placed whose verdicts are not all
\* satisfied decreases health by exactly 1 and leaves score unchanged; one
\* whose verdicts are all satisfied increases score by exactly 1 and leaves
\* health unchanged; select, place, remove, drag and reset change neither.
C23_HealthAndScore ==
  [][ /\ (ClickSubmit /\ availableDigits = <<>> /\ ~AllSatisfiedNow) =>
           (health' = health - 1 /\ score' = score)
      /\ (ClickSubmit /\ availableDigits = <<>> /\ AllSatisfiedNow) =>
           (score' = score + 1 /\ health' = health)
      /\ PlacementAction => (health' = health /\ score' = score) ]_vars

\* a game in which one submission was solved and a later one failed
C23_Witness ==
  /\ screen = "game"
  /\ isSubmitted
  /\ score = 1
  /\ health = 2
  /\ ~AllSatisfiedNow

(***************************************************************************)
(* Evaluation mode                                                         *)
(***************************************************************************)
\* C24: when a puzzle whose slots declare prefilled digits is loaded, each
\* slot cell holds the corresponding prefilled digit, so that a submission
\* validates the numbers formed by the prefilled digits.
C24_PrefilledDigitsLoaded ==
  screen = "game" =>
    \A s \in 1..Len(puzzle.slots) :
      Has(puzzle.slots[s], "prefilled") =>
        \A k \in 1..Len(puzzle.slots[s].cells) :
          GridGet(grid, puzzle.slots[s].cells[k]) = puzzle.slots[s].prefilled[k]

(***************************************************************************)
(* Reaching the completion screen                                          *)
(***************************************************************************)
\* the grids a player can submit on puzzle p: every digit of the pool in a
\* cell of its own, the other cells empty; PlaceFrom places digit i and the
\* ones after it on the cells g leaves empty
RECURSIVE PlaceFrom(_, _, _)
PlaceFrom(p, i, g) ==
  IF i > Len(p.digits) THEN {g}
  ELSE UNION {PlaceFrom(p, i + 1, [g EXCEPT ![cellId] = p.digits[i]]) :
                cellId \in {c \in DOMAIN g : g[c] = Null}}

Placements(p) == PlaceFrom(p, 1, [cellId \in CellIds(p) |-> Null])

\* some submission the player can make on puzzle p is solved
Solvable(p) ==
  \E g \in Placements(p) :
    isPuzzleSolved(validateConstraints([puzzle |-> p, grid |-> g]))

\* C25: the completion screen is reachable by solving every puzzle of the
\* list in turn; for that, every puzzle the list brings on screen can be
\* brought to a solved submission by some placement of its digit pool.
C25_EveryLoadedPuzzleSolvable == screen = "game" => Solvable(puzzle)

(***************************************************************************)
(* The shipped puzzles that declare an answer, submitted with the whole    *)
(* pool placed.                                                            *)
(***************************************************************************)
ShippedInit ==
  /\ puzzle \in {q7, q8}
  /\ grid \in Placements(puzzle)
  /\ validationResults = <<>>
  /\ solved = FALSE
  /\ pc = "input"
  /\ EngineOnly

ShippedSpec == ShippedInit /\ [][Next]_vars

\* every constraint of the puzzle, evaluated on its own on the grid, is
\* satisfied
PassesPerConstraint ==
  \A i \in 1..Len(Constraints) : validateConstraint(Constraints[i], State).satisfied

\* C26: for q7 and q8 a submission with the whole pool placed is solved
\* exactly when the grid equals the declared answer: no placement of the pool
\* passes per-constraint evaluation, the answer itself included.
C26_SolvedOnlyThroughAnswer ==
  /\ pc = "solved" => (solved <=> GridHoldsAnswer)
  /\ ~PassesPerConstraint

\* the answer is on the grid and the submission came out solved
C26_Witness ==
  /\ pc = "solved" /\ solved /\ GridHoldsAnswer
  /\ \A cellId \in DOMAIN grid : grid[cellId] # Null

(***************************************************************************)
(* Health at zero                                                          *)
(***************************************************************************)
\* C27: health stays within 0..3 in every reachable state, whatever happens
\* between a submission that brings it to 0 and the delayed game-over screen.
C27_HealthWithinBounds == health \in 0..3

(***************************************************************************)
(* One point per puzzle                                                    *)
(***************************************************************************)
\* the puzzles loaded since the last start: the list is walked from index 0
PuzzlesLoaded == currentPuzzleIndex + 1

\* C28: each loaded puzzle adds at most one to score: while a puzzle is on
\* screen the score does not exceed the number of puzzles loaded since the
\* last start, and no more than one completion callback is pending.
C28_OnePointPerPuzzle ==
  screen = "game" => (score <= PuzzlesLoaded /\ completionTimers <= 1)

(***************************************************************************)
(* Verdicts on display                                                     *)
(***************************************************************************)
\* C29: the verdicts on display are never stale: whenever isSubmitted is
\* true, validationResults is what validateConstraints gives on the current
\* grid.
C29_VerdictsNeverStale ==
  isSubmitted => validationResults = validateConstraints(State)

\* a submission was turned down, its verdicts are on display, and an earlier
\* submission had been turned down before it
C29_Witness ==
  /\ screen = "game" /\ isSubmitted /\ health = 1
  /\ \E i \in 1..Len(validationResults) : ~validationResults[i].satisfied

====
